---------------------------- MODULE Spec2Model ----------------------------
(***************************************************************************)
(* A model of nenupy's time-frequency reader (nenupy/io/tf.py): the block  *)
(* validity mask, the assembly of the (time, frequency) cube, the          *)
(* validated configuration object, the selection and the rebinning done    *)
(* by Spectra.get(); and of the Constraints container and the elevation    *)
(* constraint of nenupy/schedule/constraints.py.                           *)
(*                                                                         *)
(* Units.  Times are integers counting ticks of 2e-8 s, the largest unit   *)
(* in which one second, one sampling period (1/195312.5 s) and the 1e-7 s  *)
(* step of an ISO string of precision 7 are all whole.  Frequencies are    *)
(* integers counting 1/8 Hz, so that the channel width 195312.5 Hz/fftlen  *)
(* is whole for fftlen in {1, 2, 4}.  Arithmetic is exact; the binary      *)
(* floating point error of the program is not modelled.                    *)
(***************************************************************************)
EXTENDS Integers, Sequences, FiniteSets, TLC

VARIABLES
    file,   \* the blocks of the file on disk
    sp,     \* the Spectra instance, or NoObj
    ret,    \* the last call made and what it gave back
    calls,  \* number of configuration assignments made so far
    rb,     \* input and output of a stand-alone _time_frequency_rebin call
    mmaps,  \* number of memory maps of the file that instances hold
    cts     \* the Constraints objects built so far, in the order of their making

vars == <<file, sp, ret, calls, rb, mmaps, cts>>

----------------------------------------------------------------------------
(* Bounds of the model.                                                    *)

MaxBlocks == 3

MaxCalls == 2

MaxLen == 5

----------------------------------------------------------------------------
(* Python / numpy arithmetic.                                              *)

\* No instance: before open, or after an open that raised
NoObj == [none |-> TRUE]

\* Python's None; a value v that may be None is held as <<v>>
None == <<>>

Some(v) == <<v>>

\* np.nan; a number num/den is held as <<num, den>>
NaN == <<>>

Abs(x) == IF x < 0 THEN -x ELSE x

Min(a, b) == IF a <= b THEN a ELSE b

Max(a, b) == IF a >= b THEN a ELSE b

\* np.floor(a / b) for b > 0
FloorDiv(a, b) == a \div b

\* np.ceil(a / b) for b > 0
CeilDiv(a, b) == -((-a) \div b)

\* np.round(a / b) for b > 0: to the nearest integer, a tie to the even one
RoundDiv(a, b) ==
    LET q == a \div b
        r == a % b
    IN  IF 2 * r < b THEN q
        ELSE IF 2 * r > b THEN q + 1
        ELSE IF q % 2 = 0 THEN q ELSE q + 1

\* int(np.argmin(s)) + 1: the first position holding the least value
ArgMin(s) ==
    CHOOSE i \in 1..Len(s) :
        /\ \A j \in 1..Len(s) : s[i] <= s[j]
        /\ \A j \in 1..(i - 1) : s[j] > s[i]

\* A slice bound of Python resolved against a length n
SliceIdx(i, n) == IF i < 0 THEN Max(i + n, 0) ELSE Min(i, n)

\* s[i:j] of Python, i and j zero-based and possibly negative
PySlice(s, i, j) ==
    LET a == SliceIdx(i, Len(s))
        b == SliceIdx(j, Len(s))
    IN  IF a >= b THEN <<>> ELSE SubSeq(s, a + 1, b)

RECURSIVE SeqSum(_)
SeqSum(s) == IF s = <<>> THEN 0 ELSE s[1] + SeqSum(Tail(s))

RECURSIVE Concat(_)
Concat(ss) == IF ss = <<>> THEN <<>> ELSE ss[1] \o Concat(Tail(ss))

\* s[mask] of numpy: the entries of s whose mask entry is TRUE, in order
BoolIndex(s, m) ==
    LET F[i \in 0..Len(s)] ==
            IF i = 0 THEN <<>>
            ELSE IF m[i] THEN Append(F[i - 1], s[i]) ELSE F[i - 1]
    IN  F[Len(s)]

----------------------------------------------------------------------------
(* Units and the program's constants.                                      *)

\* twice SUBBAND_WIDTH in Hz
SUBBAND_WIDTH_X2 == 390625

TicksPerSecond == 128 * SUBBAND_WIDTH_X2

\* 1 / SUBBAND_WIDTH seconds, in ticks
SamplePeriod == (2 * TicksPerSecond) \div SUBBAND_WIDTH_X2

\* the step of Time.isot at precision 7, in ticks
IsotStep == TicksPerSecond \div 10000000

\* SUBBAND_WIDTH in units of 1/8 Hz
SubbandWidthF == 4 * SUBBAND_WIDTH_X2

\* one Hz in units of 1/8 Hz
HzF == (2 * SubbandWidthF) \div SUBBAND_WIDTH_X2

----------------------------------------------------------------------------
(* The files the model opens.  A layout fixes the header fields that are   *)
(* constant over a file and the beam and subband of every beamlet; every   *)
(* block is then well formed ("ok") or damaged in one of the ways the      *)
(* validity mask looks at.                                                 *)

Layouts ==
    { [fftlen |-> 2, nfft2int |-> 15625, nffte |-> 2, t0 |-> 2 * TicksPerSecond,
       beams |-> <<0, 0, 1>>, channels |-> <<20, 21, 22>>],
      [fftlen |-> 1, nfft2int |-> 78125, nffte |-> 3, t0 |-> 3 * TicksPerSecond,
       beams |-> <<1, 2>>, channels |-> <<30, 31>>],
      [fftlen |-> 4, nfft2int |-> 15625, nffte |-> 1, t0 |-> TicksPerSecond,
       beams |-> <<0>>, channels |-> <<10>>],
      [fftlen |-> 1, nfft2int |-> 78125, nffte |-> 3, t0 |-> TicksPerSecond,
       beams |-> <<0, 1>>, channels |-> <<40, 41>>],
      [fftlen |-> 1, nfft2int |-> 15625, nffte |-> 2, t0 |-> TicksPerSecond,
       beams |-> <<0, 0>>, channels |-> <<51, 50>>] }

\* what can be wrong with a block
BlockKinds == {"ok", "idx0", "ts0", "neg"}

\* the time step of a layout, in ticks
LayoutDt(L) == L.fftlen * L.nfft2int * SamplePeriod

\* the amplitude stored for one polarisation of one sample
Fft0(L, k, sb, smp, ch) ==
    1 + (ch - 1) + L.fftlen * ((sb - 1) + Len(L.beams) * ((smp - 1) + L.nffte * k))

Fft1(L, k, sb, smp, ch) == 1 + ((k + sb + smp + ch) % 3)

\* Block number k (from 0) of a file of layout L whose first block holds
\* effective sample base * nffte
MkBlock(L, base, k, kind) ==
    LET start == L.t0 + k * L.nffte * LayoutDt(L)
        lost  == kind = "neg"
    IN  [ idx            |-> IF kind = "idx0" THEN 0 ELSE (base + k) * L.nffte,
          TIMESTAMP      |-> IF kind = "ts0" THEN 0 ELSE start \div TicksPerSecond,
          BLOCKSEQNUMBER |-> (start % TicksPerSecond) \div SamplePeriod,
          fftlen         |-> L.fftlen,
          nfft2int       |-> L.nfft2int,
          nffte          |-> L.nffte,
          nbchan         |-> IF lost THEN -Len(L.beams) ELSE Len(L.beams),
          data           |->
              [sb \in 1..Len(L.beams) |->
                  [ beam    |-> IF lost THEN 0 ELSE L.beams[sb],
                    channel |-> IF lost THEN 0 ELSE L.channels[sb],
                    fft0    |-> [smp \in 1..L.nffte |-> [ch \in 1..L.fftlen |->
                                    IF lost THEN 0 ELSE Fft0(L, k, sb, smp, ch)]],
                    fft1    |-> [smp \in 1..L.nffte |-> [ch \in 1..L.fftlen |->
                                    IF lost THEN 0 ELSE Fft1(L, k, sb, smp, ch)]] ]] ]

MkFile(L, base, kinds) ==
    [k \in 1..Len(kinds) |-> MkBlock(L, base, k - 1, kinds[k])]

KindSeqs(n) == [1..n -> BlockKinds]

Files ==
    { MkFile(L, base, kinds) :
        L \in Layouts, base \in {0, 1},
        kinds \in UNION { KindSeqs(n) : n \in 1..MaxBlocks } }

----------------------------------------------------------------------------
(* Spectra._get_bad_data_mask                                              *)

\* A variant without the exception for the first block, which C1 tells from
\* the mask of the code
GetBadDataMaskEveryBlock(data) ==
    [i \in 1..Len(data) |-> data[i].idx = 0 \/ data[i].nbchan < 0]

GetBadDataMask(data) ==
    LET block_timestamp_mask == [i \in 1..Len(data) |-> data[i].TIMESTAMP = 0]
        block_start_idx_mask ==
            [i \in 1..Len(data) |-> IF i = 1 THEN FALSE ELSE data[i].idx = 0]
        block_nsubbands_mask == [i \in 1..Len(data) |-> data[i].nbchan < 0]
    IN  [i \in 1..Len(data) |->
            \/ block_start_idx_mask[i]
            \/ block_start_idx_mask[i]
            \/ block_nsubbands_mask[i]]

----------------------------------------------------------------------------
(* Spectra._assemble_to_tf and the helpers of tf_utils it calls            *)

\* utils.spectra_data_to_matrix, for one sample: the products <<xx, xy, yy>>
\* of the two polarisations' amplitudes
SpectraDataToMatrix(f0, f1) == <<f0 * f0, f0 * f1, f1 * f1>>

\* utils.blocks_to_tf_data: (block, subband, sample, channel) to (time, frequency)
BlocksToTfData(blocks, n_block_times, n_channels) ==
    [t \in 1..(Len(blocks) * n_block_times) |->
        LET b   == ((t - 1) \div n_block_times) + 1
            smp == ((t - 1) % n_block_times) + 1
        IN  [f \in 1..(Len(blocks[b].data) * n_channels) |->
                LET sb == ((f - 1) \div n_channels) + 1
                    ch == ((f - 1) % n_channels) + 1
                IN  SpectraDataToMatrix(blocks[b].data[sb].fft0[smp][ch],
                                        blocks[b].data[sb].fft1[smp][ch])]]

\* A variant that keeps the flagged blocks, which C2 tells from the filter
\* of the code
FilterBlocksKeepAll(data, mask) == data

\* data[~mask]: the blocks that are not flagged, in file order
FilterBlocks(data, mask) == BoolIndex(data, [i \in 1..Len(data) |-> ~mask[i]])

AssembleToTf(data, mask, n_block_times, n_channels) ==
    BlocksToTfData(FilterBlocks(data, mask), n_block_times, n_channels)

\* utils.sort_beam_edges: each beam's inclusive range of frequency indices
\* (from 0), the first to the last subband carrying its identifier
SortBeamEdges(beam_array, n_channels) ==
    LET ids == {beam_array[i] : i \in 1..Len(beam_array)}
        at(b) == {i \in 1..Len(beam_array) : beam_array[i] = b}
        first(b) == CHOOSE i \in at(b) : \A j \in at(b) : i <= j
        last(b) == CHOOSE i \in at(b) : \A j \in at(b) : i >= j
    IN  [b \in ids |-> <<(first(b) - 1) * n_channels, last(b) * n_channels - 1>>]

----------------------------------------------------------------------------
(* _ProcessingConfiguration.  A setter is an operator from the             *)
(* configuration and the value assigned to the exception it raises         *)
(* ("none" when it returns), the warnings it logs and the configuration    *)
(* it leaves.  The value assigned carries its Python type in ty.           *)

Raised(cfg, e) == [exc |-> e, warn |-> {}, cfg |-> cfg]

Returned(cfg, w) == [exc |-> "none", warn |-> w, cfg |-> cfg]

\* A variant that stores any integer, which C3 tells from the setter of the
\* code
SetBeamUnchecked(cfg, selected_beam) ==
    IF selected_beam.ty # "int" THEN Raised(cfg, "TypeError")
    ELSE Returned([cfg EXCEPT !.beam = selected_beam.v], {})

\* the beam setter
SetBeam(cfg, selected_beam) ==
    IF selected_beam.ty # "int" THEN Raised(cfg, "TypeError")
    ELSE IF selected_beam.v \notin cfg.available_beams THEN Raised(cfg, "IndexError")
    ELSE Returned([cfg EXCEPT !.beam = selected_beam.v], {})

\* A variant that accepts a range of equal bounds, which C4 tells from the
\* setter of the code
SetTimeRangeStrict(cfg, selected_range) ==
    IF selected_range.ty # "Time" THEN Raised(cfg, "TypeError")
    ELSE IF Len(selected_range.v) # 2 THEN Raised(cfg, "ValueError")
    ELSE IF selected_range.v[1] > selected_range.v[2] THEN Raised(cfg, "ValueError")
    ELSE Returned([cfg EXCEPT !.time_range = selected_range.v], {})

\* the time_range setter
SetTimeRange(cfg, selected_range) ==
    IF selected_range.ty # "Time" THEN Raised(cfg, "TypeError")
    ELSE IF Len(selected_range.v) # 2 THEN Raised(cfg, "ValueError")
    ELSE IF selected_range.v[1] >= selected_range.v[2] THEN Raised(cfg, "ValueError")
    ELSE Returned([cfg EXCEPT !.time_range = selected_range.v],
                  IF \/ selected_range.v[2] < cfg.time_min
                     \/ selected_range.v[1] > cfg.time_max
                  THEN {"Requested time_range outside availaible data!"}
                  ELSE {})

\* A variant that stores the range it then rejects, which C5 tells from the
\* setter of the code
SetFrequencyRangeStoreFirst(cfg, selected_range) ==
    IF selected_range.ty # "Quantity" THEN Raised(cfg, "TypeError")
    ELSE IF Len(selected_range.v) # 2 THEN Raised(cfg, "ValueError")
    ELSE IF selected_range.v[1] >= selected_range.v[2]
    THEN Raised([cfg EXCEPT !.frequency_range = selected_range.v], "ValueError")
    ELSE Returned([cfg EXCEPT !.frequency_range = selected_range.v], {})

\* the frequency_range setter
SetFrequencyRange(cfg, selected_range) ==
    IF selected_range.ty # "Quantity" THEN Raised(cfg, "TypeError")
    ELSE IF Len(selected_range.v) # 2 THEN Raised(cfg, "ValueError")
    ELSE IF selected_range.v[1] >= selected_range.v[2] THEN Raised(cfg, "ValueError")
    ELSE Returned([cfg EXCEPT !.frequency_range = selected_range.v], {})

\* A variant that stores the value before it checks it, which C28 tells
\* from the setter of the code
SetEdgeChannelsStoreFirst(cfg, channels) ==
    IF channels.ty = "tuple"
    THEN IF Len(channels.v) # 2
         THEN Raised([cfg EXCEPT !.edge_channels_to_remove = channels], "IndexError")
         ELSE IF ~channels.ints
         THEN Raised([cfg EXCEPT !.edge_channels_to_remove = channels], "TypeError")
         ELSE Returned([cfg EXCEPT !.edge_channels_to_remove = channels], {})
    ELSE IF channels.ty # "int"
    THEN Raised([cfg EXCEPT !.edge_channels_to_remove = channels], "TypeError")
    ELSE Returned([cfg EXCEPT !.edge_channels_to_remove = channels], {})

\* the edge_channels_to_remove setter; a tuple is given as its length, the
\* types of its entries and its entries
SetEdgeChannels(cfg, channels) ==
    IF channels.ty = "tuple"
    THEN IF Len(channels.v) # 2 THEN Raised(cfg, "IndexError")
         ELSE IF ~channels.ints THEN Raised(cfg, "TypeError")
         ELSE Returned([cfg EXCEPT !.edge_channels_to_remove = channels], {})
    ELSE IF channels.ty # "int" THEN Raised(cfg, "TypeError")
    ELSE Returned([cfg EXCEPT !.edge_channels_to_remove = channels], {})

\* rebin_dt, rebin_df and correct_bandpass are plain attributes: an
\* assignment stores whatever it is given
SetRebinDt(cfg, value) == Returned([cfg EXCEPT !.rebin_dt = value], {})

SetRebinDf(cfg, value) == Returned([cfg EXCEPT !.rebin_df = value], {})

SetCorrectBandpass(cfg, value) == Returned([cfg EXCEPT !.correct_bandpass = value], {})

\* Time(..., precision=7).isot read back: the time to the nearest 1e-7 s
Isot(t) == ((t + (IsotStep \div 2)) \div IsotStep) * IsotStep

IntArg(n) == [ty |-> "int", ints |-> TRUE, v |-> <<n>>]

\* _ProcessingConfiguration.__init__: the assignments in the order of the
\* code, the first one that raises ending the construction
ConfigInit(time_min, time_max, frequency_min, frequency_max, available_beams) ==
    LET c0 == [ available_beams |-> available_beams,
                time_min |-> time_min,
                time_max |-> time_max,
                frequency_min |-> frequency_min,
                frequency_max |-> frequency_max,
                time_range |-> <<>>,
                frequency_range |-> <<>>,
                beam |-> 0,
                rebin_dt |-> None,
                rebin_df |-> None,
                correct_bandpass |-> TRUE,
                edge_channels_to_remove |-> IntArg(0) ]
        r1 == SetTimeRange(c0, [ty |-> "Time", v |-> <<Isot(time_min), Isot(time_max)>>])
        r2 == SetFrequencyRange(r1.cfg,
                  [ty |-> "Quantity", v |-> <<frequency_min, frequency_max>>])
        r3 == SetBeam(r2.cfg, [ty |-> "int", v |-> 0])
        r4 == SetEdgeChannels(r3.cfg, IntArg(0))
    IN  IF r1.exc # "none" THEN r1
        ELSE IF r2.exc # "none" THEN r2
        ELSE IF r3.exc # "none" THEN r3
        ELSE r4

----------------------------------------------------------------------------
(* Spectra.__init__                                                        *)

\* TIMESTAMP + BLOCKSEQNUMBER / SUBBAND_WIDTH of one block, in ticks
BlockStartUnix(block) ==
    block.TIMESTAMP * TicksPerSecond + block.BLOCKSEQNUMBER * SamplePeriod

NotMask(mask) == [i \in 1..Len(mask) |-> ~mask[i]]

\* A variant whose time step leaves out the FFT length, which C14 tells from
\* the parameters of the code
LoadAndAssembleShortStep(data) ==
    LET header == data[1]
        bad_block_mask == GetBadDataMask(data)
    IN  [ bad_block_mask |-> bad_block_mask,
          n_time_per_block |-> header.nffte,
          n_channels |-> header.fftlen,
          n_subbands |-> Abs(header.nbchan),
          dt |-> header.nfft2int * SamplePeriod,
          df |-> SubbandWidthF \div header.fftlen,
          block_start_unix |->
              BoolIndex([i \in 1..Len(data) |-> BlockStartUnix(data[i])],
                        NotMask(bad_block_mask)),
          subband_start_hz |->
              [sb \in 1..Abs(header.nbchan) |->
                  data[1].data[sb].channel * SubbandWidthF],
          beam_indices_dict |->
              SortBeamEdges([sb \in 1..Abs(header.nbchan) |-> data[1].data[sb].beam],
                            header.fftlen),
          data |-> AssembleToTf(data, bad_block_mask, header.nffte, header.fftlen) ]

\* The instance __init__ builds from the blocks, without its configuration
LoadAndAssemble(data) ==
    LET header == data[1]
        n_time_per_block == header.nffte
        n_channels == header.fftlen
        n_subbands == Abs(header.nbchan)
        bad_block_mask == GetBadDataMask(data)
    IN  [ bad_block_mask |-> bad_block_mask,
          n_time_per_block |-> n_time_per_block,
          n_channels |-> n_channels,
          n_subbands |-> n_subbands,
          dt |-> n_channels * header.nfft2int * SamplePeriod,
          df |-> SubbandWidthF \div n_channels,
          block_start_unix |->
              BoolIndex([i \in 1..Len(data) |-> BlockStartUnix(data[i])],
                        NotMask(bad_block_mask)),
          subband_start_hz |->
              [sb \in 1..n_subbands |-> data[1].data[sb].channel * SubbandWidthF],
          beam_indices_dict |->
              SortBeamEdges([sb \in 1..n_subbands |-> data[1].data[sb].beam],
                            n_channels),
          data |-> AssembleToTf(data, bad_block_mask, n_time_per_block, n_channels) ]

\* The default configuration; indexing an empty block_start_unix raises
DefaultConfiguration(o) ==
    IF o.block_start_unix = <<>> THEN Raised(NoObj, "IndexError")
    ELSE ConfigInit(o.block_start_unix[1],
                    o.block_start_unix[Len(o.block_start_unix)]
                        + o.n_time_per_block * o.dt,
                    o.subband_start_hz[1],
                    o.subband_start_hz[Len(o.subband_start_hz)] + SubbandWidthF,
                    DOMAIN o.beam_indices_dict)

\* The exception __init__ raises, the mask it computed on the way and the
\* instance it builds, once the default configuration c is built
Instance(o, c) ==
    IF c.exc # "none"
    THEN [exc |-> c.exc, bad_block_mask |-> o.bad_block_mask, obj |-> NoObj]
    ELSE [exc |-> "none",
          bad_block_mask |-> o.bad_block_mask,
          obj |-> [ n_time_per_block |-> o.n_time_per_block,
                    n_channels |-> o.n_channels,
                    n_subbands |-> o.n_subbands,
                    dt |-> o.dt,
                    df |-> o.df,
                    block_start_unix |-> o.block_start_unix,
                    subband_start_hz |-> o.subband_start_hz,
                    beam_indices_dict |-> o.beam_indices_dict,
                    data |-> o.data,
                    configuration |-> c.cfg ]]

WithConfiguration(o) == Instance(o, DefaultConfiguration(o))

\* A file that ends before the end of its first header holds no block
ShortFile == <<>>

\* A variant that builds an instance without blocks from a file too short
\* for a header, which C15 tells from the open of the code
SpectraInitLenient(data) ==
    IF data = ShortFile
    THEN [exc |-> "none", bad_block_mask |-> <<>>,
          obj |-> [block_start_unix |-> <<>>, data |-> <<>>]]
    ELSE WithConfiguration(LoadAndAssemble(data))

\* Spectra(filename): the exception raised and the instance built.  In
\* _lazy_load_data np.frombuffer(rf.read(itemsize), count=1) raises
\* ValueError when the file holds fewer bytes than one header.
SpectraInit(data) ==
    IF data = ShortFile
    THEN [exc |-> "ValueError", bad_block_mask |-> <<>>, obj |-> NoObj]
    ELSE WithConfiguration(LoadAndAssemble(data))

----------------------------------------------------------------------------
(* Numbers of numpy arrays: a float is the exact fraction <<num, den>> in  *)
(* lowest terms with den > 0, or NaN.                                      *)

RECURSIVE Gcd(_, _)
Gcd(a, b) == IF b = 0 THEN a ELSE Gcd(b, a % b)

Rat(n, d) == LET g == Gcd(Abs(n), d) IN <<n \div g, d \div g>>

RatAdd(x, y) == Rat(x[1] * y[2] + y[1] * x[2], x[2] * y[2])

RECURSIVE RatSum(_)
RatSum(s) == IF s = <<>> THEN <<0, 1>> ELSE RatAdd(s[1], RatSum(Tail(s)))

IsNumber(v) == v # NaN

\* np.nanmean of a one-dimensional array
NanMean(s) ==
    LET ok  == SelectSeq(s, IsNumber)
        sum == RatSum(ok)
    IN  IF ok = <<>> THEN NaN ELSE Rat(sum[1], sum[2] * Len(ok))

----------------------------------------------------------------------------
(* Spectra._select_data.  A two-dimensional array holds its number of      *)
(* columns nf beside its rows, so that an array without rows keeps its     *)
(* shape.                                                                  *)

\* utils.compute_spectra_time: every block start plus the offsets of its samples
ComputeSpectraTime(block_start_time_unix, ntime_per_block, time_step_s) ==
    Concat([b \in 1..Len(block_start_time_unix) |->
                [smp \in 1..ntime_per_block |->
                    <<block_start_time_unix[b] + (smp - 1) * time_step_s, 1>>]])

\* utils.compute_spectra_frequencies: every subband start plus the offsets of
\* its channels
ComputeSpectraFrequencies(subband_start_hz, n_channels, frequency_step_hz) ==
    Concat([sb \in 1..Len(subband_start_hz) |->
                [ch \in 1..n_channels |->
                    <<subband_start_hz[sb] + (ch - 1) * frequency_step_hz, 1>>]])

\* int(np.argmin(np.abs(np.ceil(starts - target)))), the ceiling taken in
\* whole units of `one` (seconds, Hz)
NearestIdx(starts, target, one) ==
    ArgMin([i \in 1..Len(starts) |-> Abs(CeilDiv(starts[i] - target, one))]) - 1

\* The time selection: the bounding blocks, the sample index inside each and
\* the global sample indices (all from 0)
TimeSelection(o) ==
    LET tmin == o.configuration.time_range[1]
        tmax == o.configuration.time_range[2]
        block_idx_min == NearestIdx(o.block_start_unix, tmin, TicksPerSecond)
        block_idx_max == NearestIdx(o.block_start_unix, tmax, TicksPerSecond)
        time_idx_min_in_block ==
            RoundDiv(tmin - o.block_start_unix[block_idx_min + 1], o.dt)
        time_idx_max_in_block ==
            RoundDiv(tmax - o.block_start_unix[block_idx_max + 1], o.dt)
    IN  [ block_idx_min |-> block_idx_min,
          block_idx_max |-> block_idx_max,
          time_idx_min_in_block |-> time_idx_min_in_block,
          time_idx_max_in_block |-> time_idx_max_in_block,
          time_idx_min |-> block_idx_min * o.n_time_per_block + time_idx_min_in_block,
          time_idx_max |-> block_idx_max * o.n_time_per_block + time_idx_max_in_block ]

\* The frequency selection inside the configured beam
FrequencySelection(o) ==
    LET fmin == o.configuration.frequency_range[1]
        fmax == o.configuration.frequency_range[2]
        beam_idx_start == o.beam_indices_dict[o.configuration.beam][1]
        beam_idx_stop == o.beam_indices_dict[o.configuration.beam][2]
        subbands_in_beam ==
            PySlice(o.subband_start_hz, beam_idx_start \div o.n_channels,
                    (beam_idx_stop + 1) \div o.n_channels)
        sb_idx_min == NearestIdx(subbands_in_beam, fmin, HzF)
        sb_idx_max == NearestIdx(subbands_in_beam, fmax, HzF)
    IN  [ beam_idx_start |-> beam_idx_start,
          beam_idx_stop |-> beam_idx_stop,
          subbands_in_beam |-> subbands_in_beam,
          sb_idx_min |-> sb_idx_min,
          sb_idx_max |-> sb_idx_max,
          frequency_idx_min |-> sb_idx_min * o.n_channels,
          frequency_idx_max |-> (sb_idx_max + 1) * o.n_channels ]

EmptyWarning == "Time selection leads to empty dataset."

\* The arrays _select_data returns for the indices ts and fs of the time and
\* frequency selections; `none` tells that it returned None
SelectWith(o, ts, fs) ==
    IF ts.time_idx_min = ts.time_idx_max
    THEN [none |-> TRUE, warn |-> {EmptyWarning}]
    ELSE [none |-> FALSE, warn |-> {},
          frequency_hz |->
              ComputeSpectraFrequencies(
                  PySlice(fs.subbands_in_beam, fs.sb_idx_min, fs.sb_idx_max + 1),
                  o.n_channels, o.df),
          time_unix |->
              PySlice(ComputeSpectraTime(
                          PySlice(o.block_start_unix, ts.block_idx_min,
                                  ts.block_idx_max + 1),
                          o.n_time_per_block, o.dt),
                      ts.time_idx_min_in_block,
                      -(o.n_time_per_block - ts.time_idx_max_in_block) + 1),
          data |->
              [nf |-> Len(PySlice(PySlice([f \in 1..(o.n_subbands * o.n_channels) |-> 0],
                                          fs.beam_idx_start, fs.beam_idx_stop + 1),
                                  fs.frequency_idx_min, fs.frequency_idx_max)),
               rows |-> [t \in 1..Len(PySlice(o.data, ts.time_idx_min,
                                              ts.time_idx_max + 1)) |->
                            PySlice(PySlice(PySlice(o.data, ts.time_idx_min,
                                                    ts.time_idx_max + 1)[t],
                                            fs.beam_idx_start, fs.beam_idx_stop + 1),
                                    fs.frequency_idx_min, fs.frequency_idx_max)]]]

\* _select_data
SelectData(o) == SelectWith(o, TimeSelection(o), FrequencySelection(o))

----------------------------------------------------------------------------
(* The correction stages of Spectra.get                                    *)

\* utils.get_bandpass: the correction of channel ch (from 1) of n_channels
GetBandpass(n_channels, ch) == n_channels + ch

\* _correct_bandpass: every channel of every subband times its correction
CorrectBandpass(data, n_channels) ==
    [data EXCEPT !.rows =
        [t \in 1..Len(data.rows) |->
            [f \in 1..data.nf |->
                LET m == data.rows[t][f]
                    g == GetBandpass(n_channels, ((f - 1) % n_channels) + 1)
                IN  IF m = NaN THEN NaN ELSE <<m[1] * g, m[2] * g, m[3] * g>>]]]

\* _remove_edge_channels: data[:, :, :lower] and data[:, :, n_channels - higher:]
\* of the array reshaped per subband are set to NaN
RemoveEdgeChannels(data, n_channels, lower_edge_channels, higher_edge_channels) ==
    LET lower_stop == SliceIdx(lower_edge_channels, n_channels)
        upper_start == SliceIdx(n_channels - higher_edge_channels, n_channels)
        masked(f) ==
            LET ch == (f - 1) % n_channels
            IN  ch < lower_stop \/ ch >= upper_start
    IN  [data EXCEPT !.rows =
            [t \in 1..Len(data.rows) |->
                [f \in 1..data.nf |-> IF masked(f) THEN NaN ELSE data.rows[t][f]]]]

\* utils.compute_stokes_parameters for stokes = "I": the sum of the two
\* auto-terms
ComputeStokesI(data) ==
    [data EXCEPT !.rows =
        [t \in 1..Len(data.rows) |->
            [f \in 1..data.nf |->
                LET m == data.rows[t][f]
                IN  IF m = NaN THEN NaN ELSE <<m[1] + m[3], 1>>]]]

----------------------------------------------------------------------------
(* Spectra._time_frequency_rebin                                           *)

\* A variant whose leftover is the remainder by the bin size, which C11
\* tells from the bins of the code
RebinPlanByBinSize(n_i, rebin, step) ==
    LET bins == FloorDiv(rebin, step)
        n == IF bins > 0 THEN FloorDiv(n_i, bins) ELSE 0
    IN  IF bins <= 0 \/ n = 0 THEN [exc |-> "ZeroDivisionError"]
        ELSE [exc |-> "none", bins |-> bins, n |-> n, leftover |-> n_i % bins,
              size |-> bins]

\* A variant that counts the bins on one entry less, which C10 tells from
\* the bins of the code
RebinPlanShort(n_i, rebin, step) ==
    LET bins == FloorDiv(rebin, step)
        n == IF bins > 0 THEN FloorDiv(n_i - 1, bins) ELSE 0
    IN  IF bins <= 0 \/ n = 0 THEN [exc |-> "ZeroDivisionError"]
        ELSE [exc |-> "none", bins |-> bins, n |-> n, leftover |-> n_i % n,
              size |-> (n_i - (n_i % n)) \div n]

\* The bins of one axis of n_i entries for a requested bin `rebin` and a
\* native step `step`: the exception raised ("none" when there is none), the
\* number of native entries asked per bin, the number of output bins, the
\* entries left over and the entries each output bin holds
RebinPlan(n_i, rebin, step) ==
    LET bins == FloorDiv(rebin, step)
        n == IF bins > 0 THEN FloorDiv(n_i, bins)
             ELSE IF bins < 0 THEN -CeilDiv(n_i, -bins)
             ELSE 0
        leftover == n_i % n
    IN  IF bins = 0 THEN [exc |-> "ZeroDivisionError"]
        ELSE IF n = 0 THEN [exc |-> "ZeroDivisionError"]
        ELSE IF n < 0 THEN [exc |-> "ValueError"]
        ELSE [exc |-> "none", bins |-> bins, n |-> n, leftover |-> leftover,
              size |-> (n_i - leftover) \div n]

\* axis[: -leftover if leftover != 0 else n_i].reshape((n, size)), row by row
KeptAxis(axis, p, n_i) ==
    PySlice(axis, 0, IF p.leftover # 0 THEN -p.leftover ELSE n_i)

RebinAxis(axis, p, n_i) ==
    LET kept == KeptAxis(axis, p, n_i)
    IN  [i \in 1..p.n |->
            NanMean([k \in 1..p.size |-> kept[(i - 1) * p.size + k]])]

\* the time axis of the data averaged bin by bin
RebinRows(data, p) ==
    LET kept == KeptAxis(data.rows, p, Len(data.rows))
    IN  [data EXCEPT !.rows =
            [i \in 1..p.n |->
                [f \in 1..data.nf |->
                    NanMean([k \in 1..p.size |-> kept[(i - 1) * p.size + k][f]])]]]

\* the frequency axis of the data averaged bin by bin
RebinColumns(data, p) ==
    [nf |-> p.n,
     rows |-> [t \in 1..Len(data.rows) |->
                  RebinAxis(data.rows[t], p, data.nf)]]

\* One stage of the rebinning once its bins p are known: the exception
\* raised, the data, the axis and the leftover.  The reshape of the axis
\* raises when the axis does not hold n * size entries.
RebinWith(data, axis, p, n_i, by_time) ==
    IF p.exc # "none"
    THEN [exc |-> p.exc, data |-> data, axis |-> axis, leftover |-> None]
    ELSE IF Len(KeptAxis(axis, p, n_i)) # p.n * p.size
    THEN [exc |-> "ValueError", data |-> data, axis |-> axis,
          leftover |-> Some(p.leftover)]
    ELSE [exc |-> "none",
          data |-> IF by_time THEN RebinRows(data, p) ELSE RebinColumns(data, p),
          axis |-> RebinAxis(axis, p, n_i),
          leftover |-> Some(p.leftover)]

\* The length of the axis a stage averages: data.shape[0] or data.shape[1]
AxisLen(data, by_time) == IF by_time THEN Len(data.rows) ELSE data.nf

\* One stage of the rebinning, in time (by_time) or in frequency; nothing is
\* done when the bin asked for is None
RebinStage(data, axis, rebin, step, by_time) ==
    IF rebin = None
    THEN [exc |-> "none", data |-> data, axis |-> axis, leftover |-> None]
    ELSE RebinWith(data, axis, RebinPlan(AxisLen(data, by_time), rebin[1], step),
                   AxisLen(data, by_time), by_time)

\* What _time_frequency_rebin returns after the two stages t and f
RebinResult(t, f) ==
    IF f.exc # "none"
    THEN [exc |-> f.exc, tleftover |-> t.leftover, fleftover |-> f.leftover]
    ELSE [exc |-> "none", tleftover |-> t.leftover, fleftover |-> f.leftover,
          freqs |-> f.axis, times |-> t.axis, data |-> f.data]

\* The frequency stage, entered when the time stage t did not raise
FrequencyRebin(t, freqs, rebin_df, df) ==
    IF t.exc # "none"
    THEN [exc |-> t.exc, tleftover |-> t.leftover, fleftover |-> None]
    ELSE RebinResult(t, RebinStage(t.data, freqs, rebin_df, df, FALSE))

\* A variant that averages in frequency first and in time next, which C13
\* tells from the order of the code
FrequencyTimeRebin(data, times, freqs, rebin_dt, rebin_df, dt, df) ==
    LET f == RebinStage(data, freqs, rebin_df, df, FALSE)
        t == RebinStage(f.data, times, rebin_dt, dt, TRUE)
    IN  IF f.exc # "none" \/ t.exc # "none"
        THEN [exc |-> "ZeroDivisionError", tleftover |-> None, fleftover |-> None]
        ELSE [exc |-> "none", tleftover |-> t.leftover, fleftover |-> f.leftover,
              freqs |-> f.axis, times |-> t.axis, data |-> t.data]

\* _time_frequency_rebin: the time stage, then the frequency stage
TimeFrequencyRebin(data, times, freqs, rebin_dt, rebin_df, dt, df) ==
    FrequencyRebin(RebinStage(data, times, rebin_dt, dt, TRUE), freqs, rebin_df, df)

----------------------------------------------------------------------------
(* Spectra.get                                                             *)

\* data after the bandpass correction, when it is asked for
BandpassStage(cfg, data, n_channels) ==
    IF cfg.correct_bandpass THEN CorrectBandpass(data, n_channels) ELSE data

\* data after the removal of the edge channels, when some are to be removed
EdgeStage(edge_chans, data, n_channels) ==
    IF edge_chans.v \notin {<<0>>, <<0, 0>>}
    THEN RemoveEdgeChannels(data, n_channels, edge_chans.v[1],
             IF edge_chans.ty = "tuple" THEN edge_chans.v[2] ELSE edge_chans.v[1])
    ELSE data

\* The stages between the selection and the rebinning
Corrected(o, selected) ==
    ComputeStokesI(
        EdgeStage(o.configuration.edge_channels_to_remove,
                  BandpassStage(o.configuration, selected, o.n_channels),
                  o.n_channels))

\* The end of get: data.compute() and SData(...), reached when the rebinning
\* r did not raise
GetResult(sel, r) ==
    IF r.exc # "none"
    THEN [exc |-> r.exc, warn |-> sel.warn, computed |-> FALSE, val |-> NoObj]
    ELSE [exc |-> "none", warn |-> sel.warn, computed |-> TRUE,
          val |-> [data |-> r.data, time |-> r.times, freq |-> r.freqs]]

\* A variant that removes the edge channels from the rebinned data, after
\* the averaging instead of before it, which C21 tells from the order of the
\* code
GetFromMaskLast(o, sel) ==
    IF sel.none
    THEN [exc |-> "TypeError", warn |-> sel.warn, computed |-> FALSE, val |-> NoObj]
    ELSE LET r == TimeFrequencyRebin(
                      ComputeStokesI(BandpassStage(o.configuration, sel.data,
                                                   o.n_channels)),
                      sel.time_unix, sel.frequency_hz, o.configuration.rebin_dt,
                      o.configuration.rebin_df, o.dt, o.df)
         IN  IF r.exc # "none"
             THEN GetResult(sel, r)
             ELSE GetResult(sel,
                      [r EXCEPT !.data =
                          EdgeStage(o.configuration.edge_channels_to_remove,
                                    r.data, o.n_channels)])

\* get after _select_data gave sel: unpacking None raises TypeError
GetFrom(o, sel) ==
    IF sel.none
    THEN [exc |-> "TypeError", warn |-> sel.warn, computed |-> FALSE, val |-> NoObj]
    ELSE GetResult(sel,
             TimeFrequencyRebin(Corrected(o, sel.data), sel.time_unix,
                                sel.frequency_hz, o.configuration.rebin_dt,
                                o.configuration.rebin_df, o.dt, o.df))

\* get(stokes="I")
Get(o) == GetFrom(o, SelectData(o))

\* A variant in which the corrections write through to the cube of the
\* instance, which C29 tells from the corrections of the code
CubeAfterGetInPlace(o) ==
    IF o.data = <<>> \/ TimeSelection(o).time_idx_min = TimeSelection(o).time_idx_max
    THEN o.data
    ELSE EdgeStage(o.configuration.edge_channels_to_remove,
                   BandpassStage(o.configuration,
                                 [nf |-> Len(o.data[1]), rows |-> o.data],
                                 o.n_channels),
                   o.n_channels).rows

\* self.data once get has returned or raised.  The selection is a new lazy
\* array over the cube; _correct_bandpass and _remove_edge_channels reshape
\* it into a further new array, and `data *= ...` and `data[...] = np.nan`
\* bind or update that local array only: the cube keeps its entries.
CubeAfterGet(o) == o.data

----------------------------------------------------------------------------
(* The calls a session makes.  The files of a session share one layout;    *)
(* T(k) is the time k quarter-samples after the start of block 0 and F(k)  *)
(* the frequency k quarter-subbands above the start of subband 0.          *)

SessionLayout == CHOOSE L \in Layouts : L.fftlen = 2

SessionFiles ==
    { MkFile(SessionLayout, 0, kinds) :
        kinds \in { k \in KindSeqs(MaxBlocks - 1) \cup KindSeqs(MaxBlocks) :
                        /\ k[1] = "ok"
                        /\ k[Len(k)] = "ok"
                        /\ \A i \in 1..Len(k) : k[i] \in {"ok", "neg"} } }

T(k) == SessionLayout.t0 + k * (LayoutDt(SessionLayout) \div 4)

F(k) == SessionLayout.channels[1] * SubbandWidthF + k * (SubbandWidthF \div 4)

BeamArgs == { [ty |-> "int", v |-> 0], [ty |-> "int", v |-> 1],
              [ty |-> "int", v |-> 2], [ty |-> "str", v |-> 0] }

TimeRangeArgs ==
    { [ty |-> "Time", v |-> <<T(4), T(12)>>],
      [ty |-> "Time", v |-> <<T(0), T(9)>>],
      [ty |-> "Time", v |-> <<T(4), T(5)>>],
      [ty |-> "Time", v |-> <<T(-16), T(-8)>>],
      [ty |-> "Time", v |-> <<T(-5), T(-4)>>],
      [ty |-> "Time", v |-> <<T(48), T(56)>>],
      [ty |-> "Time", v |-> <<T(12), T(4)>>],
      [ty |-> "Time", v |-> <<T(4), T(4)>>],
      [ty |-> "Time", v |-> <<T(4)>>],
      [ty |-> "str", v |-> <<T(4), T(12)>>] }

FrequencyRangeArgs ==
    { [ty |-> "Quantity", v |-> <<F(0), F(8)>>],
      [ty |-> "Quantity", v |-> <<F(5), F(11)>>],
      [ty |-> "Quantity", v |-> <<F(1), F(2)>>],
      [ty |-> "Quantity", v |-> <<F(-8), F(-4)>>],
      [ty |-> "Quantity", v |-> <<F(4) - 1, F(12)>>],
      [ty |-> "Quantity", v |-> <<F(8), F(0)>>],
      [ty |-> "Quantity", v |-> <<F(4), F(4)>>],
      [ty |-> "Quantity", v |-> <<F(4)>>],
      [ty |-> "float", v |-> <<F(0), F(8)>>] }

EdgeChannelArgs ==
    { IntArg(0), IntArg(1), IntArg(2), IntArg(-1),
      [ty |-> "tuple", ints |-> TRUE, v |-> <<1, 0>>],
      [ty |-> "tuple", ints |-> TRUE, v |-> <<0, 1>>],
      [ty |-> "tuple", ints |-> TRUE, v |-> <<1, 1, 1>>],
      [ty |-> "tuple", ints |-> FALSE, v |-> <<1, 1>>],
      [ty |-> "float", ints |-> FALSE, v |-> <<1>>] }

RebinDtArgs ==
    { None, Some(0), Some(-LayoutDt(SessionLayout)),
      Some(LayoutDt(SessionLayout) \div 2), Some(LayoutDt(SessionLayout)),
      Some(2 * LayoutDt(SessionLayout)) }

RebinDfArgs ==
    { None, Some(0), Some(SubbandWidthF \div SessionLayout.fftlen),
      Some(SubbandWidthF) }

----------------------------------------------------------------------------
(* The state machine: a file is opened once, then configured and queried.  *)

NoCall == [op |-> "none", arg |-> <<>>, exc |-> "none", warn |-> {},
           computed |-> FALSE, val |-> NoObj]

NoRebin == [pc |-> "off"]

Init ==
    /\ file \in SessionFiles
    /\ sp = NoObj
    /\ ret = NoCall
    /\ calls = 0
    /\ rb = NoRebin
    /\ mmaps = 0
    /\ cts = <<>>

Returns(name, r) ==
    [op |-> name, arg |-> <<>>, exc |-> r.exc, warn |-> r.warn,
     computed |-> r.computed, val |-> r.val]

\* ret keeps the mask _get_bad_data_mask returned during the open; the
\* instance built holds, in self.data, the np.memmap of the file
Opened(r) ==
    /\ sp' = r.obj
    /\ mmaps' = IF r.obj # NoObj THEN mmaps + 1 ELSE mmaps
    /\ ret' = [NoCall EXCEPT !.op = "open", !.exc = r.exc,
                             !.val = [bad_block_mask |-> r.bad_block_mask]]

\* sp = Spectra(filename)
Open ==
    /\ sp = NoObj
    /\ ret.op = "none"
    /\ Opened(SpectraInit(file))
    /\ UNCHANGED <<file, calls, rb, cts>>

\* sp.configuration.<name> = arg, for a property with a setter or a plain
\* attribute
Assign(name, r, arg) ==
    /\ sp' = [sp EXCEPT !.configuration = r.cfg]
    /\ ret' = [NoCall EXCEPT !.op = name, !.arg = arg, !.exc = r.exc,
                             !.warn = r.warn]
    /\ calls' = calls + 1
    /\ UNCHANGED <<file, rb, mmaps, cts>>

CanAssign == sp # NoObj /\ calls < MaxCalls

AssignBeam ==
    /\ CanAssign
    /\ \E a \in BeamArgs : Assign("beam", SetBeam(sp.configuration, a), a)

AssignTimeRange ==
    /\ CanAssign
    /\ \E a \in TimeRangeArgs :
          Assign("time_range", SetTimeRange(sp.configuration, a), a)

AssignFrequencyRange ==
    /\ CanAssign
    /\ \E a \in FrequencyRangeArgs :
          Assign("frequency_range", SetFrequencyRange(sp.configuration, a), a)

AssignEdgeChannels ==
    /\ CanAssign
    /\ \E a \in EdgeChannelArgs :
          Assign("edge_channels_to_remove", SetEdgeChannels(sp.configuration, a), a)

AssignRebinDt ==
    /\ CanAssign
    /\ \E a \in RebinDtArgs : Assign("rebin_dt", SetRebinDt(sp.configuration, a), a)

AssignRebinDf ==
    /\ CanAssign
    /\ \E a \in RebinDfArgs : Assign("rebin_df", SetRebinDf(sp.configuration, a), a)

AssignCorrectBandpass ==
    /\ CanAssign
    /\ \E a \in BOOLEAN :
          Assign("correct_bandpass", SetCorrectBandpass(sp.configuration, a), a)

\* sp.get()
GetCall ==
    /\ sp # NoObj
    /\ ret' = Returns("get", Get(sp))
    /\ sp' = [sp EXCEPT !.data = CubeAfterGet(sp)]
    /\ UNCHANGED <<file, calls, rb, mmaps, cts>>

\* sp.close(): Spectra defines no close, no __del__ and no __exit__, so the
\* attribute lookup raises and nothing is released
CloseCall ==
    /\ sp # NoObj
    /\ ret' = [NoCall EXCEPT !.op = "close", !.exc = "AttributeError"]
    /\ UNCHANGED <<file, sp, calls, rb, mmaps, cts>>

\* del sp: the last reference to the instance goes, and with it self.data
\* and the memory map it holds
Discard ==
    /\ sp # NoObj
    /\ sp' = NoObj
    /\ ret' = [NoCall EXCEPT !.op = "discard"]
    /\ mmaps' = mmaps - 1
    /\ UNCHANGED <<file, calls, rb, cts>>

Next ==
    \/ Open
    \/ AssignBeam
    \/ AssignTimeRange
    \/ AssignFrequencyRange
    \/ AssignEdgeChannels
    \/ AssignRebinDt
    \/ AssignRebinDf
    \/ AssignCorrectBandpass
    \/ GetCall
    \/ CloseCall
    \/ Discard

Spec == Init /\ [][Next]_vars

----------------------------------------------------------------------------
(* Opening every file: the blocks are drawn from all the ways a block can  *)
(* be damaged.                                                             *)

InitOpen ==
    /\ file \in Files \cup {ShortFile}
    /\ sp = NoObj
    /\ ret = NoCall
    /\ calls = 0
    /\ rb = NoRebin
    /\ mmaps = 0
    /\ cts = <<>>

\* ret keeps what the second Spectra(filename) gave
Reopened(r) ==
    /\ ret' = [NoCall EXCEPT !.op = "reopen", !.exc = r.exc, !.val = r.obj]
    /\ mmaps' = IF r.obj # NoObj THEN mmaps + 1 ELSE mmaps

\* Spectra(filename) once more on the same file, the first instance kept
Reopen ==
    /\ ret.op = "open"
    /\ Reopened(SpectraInit(file))
    /\ UNCHANGED <<file, sp, calls, rb, cts>>

OpenNext == Open \/ Reopen

SpecOpen == InitOpen /\ [][OpenNext]_vars

----------------------------------------------------------------------------
(* Selecting in frequency: a file is opened, a beam and a frequency range  *)
(* are chosen and the data are read.  The files hold the subbands of the   *)
(* session layout, in ascending order or with the two subbands of beam 0   *)
(* exchanged.                                                              *)

UnorderedLayout == [SessionLayout EXCEPT !.channels = <<21, 20, 22>>]

SelectFiles ==
    { MkFile(L, 0, [k \in 1..(MaxBlocks - 1) |-> "ok"]) :
        L \in {SessionLayout, UnorderedLayout} }

InitSelect ==
    /\ file \in SelectFiles
    /\ sp = NoObj
    /\ ret = NoCall
    /\ calls = 0
    /\ rb = NoRebin
    /\ mmaps = 0
    /\ cts = <<>>

SelectNext ==
    \/ Open
    \/ AssignBeam
    \/ AssignFrequencyRange
    \/ GetCall

SpecSelect == InitSelect /\ [][SelectNext]_vars

----------------------------------------------------------------------------
(* _time_frequency_rebin on its own: the array, its axes and the bins      *)
(* asked for are drawn from bounded sets, and one call rebins them.        *)

\* the native steps of the stand-alone arrays
RebinSteps == [dt |-> 2, df |-> 2]

\* a (time, frequency) array of n rows and nf columns, with NaN entries
\* when holes is TRUE
RebinData(n, nf, holes) ==
    [nf |-> nf,
     rows |-> [t \in 1..n |-> [f \in 1..nf |->
                  IF holes /\ (t + f) % 3 = 0 THEN NaN ELSE <<t * t + 3 * f, 1>>]]]

RebinInputs ==
    { [ data |-> RebinData(n, nf, holes),
        times |-> [t \in 1..n |-> <<100 + RebinSteps.dt * t, 1>>],
        freqs |-> [f \in 1..nf |-> <<50 + RebinSteps.df * f, 1>>],
        rebin_dt |-> rdt,
        rebin_df |-> rdf ] :
        n \in 1..MaxLen, nf \in 1..3, holes \in BOOLEAN,
        rdt \in {None} \cup { Some(k) : k \in (-1)..(RebinSteps.dt * MaxLen + 1) },
        rdf \in {None} \cup { Some(k) : k \in 0..(RebinSteps.df * 3 + 1) } }

InitRebin ==
    /\ file = <<>>
    /\ sp = NoObj
    /\ ret = NoCall
    /\ calls = 0
    /\ mmaps = 0
    /\ cts = <<>>
    /\ rb \in { [pc |-> "ready", in |-> i, out |-> NoObj] : i \in RebinInputs }

RebinCall ==
    /\ rb.pc = "ready"
    /\ rb' = [rb EXCEPT !.pc = "done",
                        !.out = TimeFrequencyRebin(rb.in.data, rb.in.times,
                                    rb.in.freqs, rb.in.rebin_dt, rb.in.rebin_df,
                                    RebinSteps.dt, RebinSteps.df)]
    /\ UNCHANGED <<file, sp, ret, calls, mmaps, cts>>

SpecRebin == InitRebin /\ [][RebinCall]_vars

----------------------------------------------------------------------------
(* nenupy/schedule/constraints.py: the Constraints container and the       *)
(* ElevationCnst score.  A constraint is its class and its parameter       *)
(* (elevationMin in degrees for ElevationCnst, 0 otherwise).               *)

\* the number of Constraints objects a behaviour builds
MaxObjs == 3

\* the longest elevation track of a target
MaxTrack == 3

\* ElevationCnst(0.), the constraint Constraints adds by default
DefaultElevationCnst == [cls |-> "ElevationCnst", par |-> 0]

\* the constraints given to Constraints(...) and to +
CnstArgs ==
    { [cls |-> "ElevationCnst", par |-> 20],
      [cls |-> "MeridianTransitCnst", par |-> 0],
      [cls |-> "AzimuthCnst", par |-> 0] }

\* something that is not a Constraint
NotAConstraint == [cls |-> "str", par |-> 0]

\* the tuples of at most two constraints
CnstTuples ==
    {<<>>} \cup { <<a>> : a \in CnstArgs } \cup { <<a, b>> : a, b \in CnstArgs }

\* np.unique(..., return_counts=True) and any(count > 1)
HasDuplicateClass(constraints) ==
    \E i, j \in 1..Len(constraints) : i < j /\ constraints[i].cls = constraints[j].cls

HasClass(constraints, cls) == \E i \in 1..Len(constraints) : constraints[i].cls = cls

\* A variant that does not look for two constraints of one class, which C18
\* tells from the constructor of the code
ConstraintsInitUnchecked(constraints) ==
    IF ~HasClass(constraints, "ElevationCnst")
    THEN [exc |-> "none",
          obj |-> [constraints |-> constraints \o <<DefaultElevationCnst>>,
                   default_el |-> TRUE]]
    ELSE [exc |-> "none", obj |-> [constraints |-> constraints, default_el |-> FALSE]]

\* Constraints.__init__: the exception raised and the object built
ConstraintsInit(constraints) ==
    IF HasDuplicateClass(constraints) THEN [exc |-> "ValueError", obj |-> NoObj]
    ELSE IF ~HasClass(constraints, "ElevationCnst")
    THEN [exc |-> "none",
          obj |-> [constraints |-> constraints \o <<DefaultElevationCnst>>,
                   default_el |-> TRUE]]
    ELSE [exc |-> "none", obj |-> [constraints |-> constraints, default_el |-> FALSE]]

\* list.pop(np.where(cs == str(ElevationCnst))[0][0])
PopFirstElevation(constraints) ==
    LET k == CHOOSE i \in 1..Len(constraints) :
                 /\ constraints[i].cls = "ElevationCnst"
                 /\ \A j \in 1..(i - 1) : constraints[j].cls # "ElevationCnst"
    IN  SubSeq(constraints, 1, k - 1) \o SubSeq(constraints, k + 1, Len(constraints))

\* the left operand of + after the removal of its default elevation
\* constraint, which __add__ does on self when an ElevationCnst is added
AddSelf(self, other) ==
    IF other.cls = "ElevationCnst" /\ self.default_el
    THEN [constraints |-> PopFirstElevation(self.constraints), default_el |-> FALSE]
    ELSE self

\* the end of __add__: Constraints(*constraints) and the copy of _default_el
AddResult(self, r) ==
    IF r.exc # "none" THEN [exc |-> r.exc, self |-> self, obj |-> NoObj]
    ELSE [exc |-> "none", self |-> self,
          obj |-> [r.obj EXCEPT !.default_el = self.default_el]]

AddTo(self, other) == AddResult(self, ConstraintsInit(self.constraints \o <<other>>))

\* Constraints.__add__: the exception raised, the left operand afterwards
\* and the object returned
ConstraintsAdd(self, other) ==
    IF other.cls = "str" THEN [exc |-> "TypeError", self |-> self, obj |-> NoObj]
    ELSE AddTo(AddSelf(self, other), other)

\* the elevations of a target, in degrees, at the edges of its time slots
Elevations == {-10, 10, 30, 50}

Tracks == UNION { [1..n -> Elevations] : n \in 1..MaxTrack }

ElevationMinArgs == {-5, 0, 20, 40, 100}

\* twice elevMean = (elevation[1:] + elevation[:-1]) / 2, slot by slot
ElevMean2(elevation) ==
    [i \in 1..(Len(elevation) - 1) |-> elevation[i + 1] + elevation[i]]

\* twice np.nanmax(elevMean), elevMean being NaN where it is <= elevationMin
ElevMax2(elevation, emin) ==
    LET m == ElevMean2(elevation)
        above == { m[i] : i \in { j \in 1..Len(m) : m[j] > 2 * emin } }
    IN  CHOOSE x \in above : \A y \in above : y <= x

\* ElevationCnst._evaluate: the score of every time slot
ElevationEvaluate(emin, elevation) ==
    IF \A i \in 1..(Len(elevation) - 1) : ElevMean2(elevation)[i] <= 2 * emin
    THEN [i \in 1..(Len(elevation) - 1) |-> NaN]
    ELSE [i \in 1..(Len(elevation) - 1) |->
            IF ElevMean2(elevation)[i] <= 2 * emin THEN NaN
            ELSE Rat(ElevMean2(elevation)[i], ElevMax2(elevation, emin))]

\* ElevationCnst(elevationMin=emin)(target): the setter of elevationMin
\* raises outside 0..90 degrees
ElevationCnstCall(emin, elevation) ==
    IF emin < 0 \/ emin > 90
    THEN [exc |-> "ValueError", warn |-> {}, computed |-> FALSE, val |-> NoObj]
    ELSE [exc |-> "none",
          warn |-> IF \A i \in 1..(Len(elevation) - 1) :
                         ElevMean2(elevation)[i] <= 2 * emin
                   THEN {"Constraint cannot be satisfied over the given time range."}
                   ELSE {},
          computed |-> TRUE,
          val |-> ElevationEvaluate(emin, elevation)]

InitCnst ==
    /\ file = <<>>
    /\ sp = NoObj
    /\ ret = NoCall
    /\ calls = 0
    /\ rb = NoRebin
    /\ mmaps = 0
    /\ cts = <<>>

\* what a call left: the new object is the last of cts when there is one
Built(name, arg, r, heap) ==
    /\ cts' = IF r.exc = "none" THEN Append(heap, r.obj) ELSE heap
    /\ ret' = [NoCall EXCEPT !.op = name, !.arg = arg, !.exc = r.exc]

\* c = Constraints(*constraints)
NewConstraints ==
    /\ Len(cts) < MaxObjs
    /\ \E a \in CnstTuples : Built("Constraints", a, ConstraintsInit(a), cts)
    /\ UNCHANGED <<file, sp, calls, rb, mmaps>>

\* c2 = c + x, c being object i; ret.arg keeps c as it was before the call
Added(i, x, r) ==
    Built("add", [self |-> i, other |-> x, before |-> cts[i]], r,
          [cts EXCEPT ![i] = r.self])

AddConstraint ==
    /\ Len(cts) < MaxObjs
    /\ \E i \in 1..Len(cts) : \E x \in CnstArgs \cup {NotAConstraint} :
          Added(i, x, ConstraintsAdd(cts[i], x))
    /\ UNCHANGED <<file, sp, calls, rb, mmaps>>

\* score = ElevationCnst(elevationMin=emin)(target)
EvaluateElevation ==
    /\ \E emin \in ElevationMinArgs : \E elevation \in Tracks :
          ret' = [Returns("evaluate", ElevationCnstCall(emin, elevation))
                     EXCEPT !.arg = [elevationMin |-> emin, elevation |-> elevation]]
    /\ UNCHANGED <<file, sp, calls, rb, mmaps, cts>>

NextCnst ==
    \/ NewConstraints
    \/ AddConstraint

\* Constraints objects are built and added to
SpecCnst == InitCnst /\ [][NextCnst]_vars

\* elevation constraints are evaluated on the tracks of targets
SpecElev == InitCnst /\ [][EvaluateElevation]_vars

----------------------------------------------------------------------------
(* Properties.                                                             *)

Cfg == sp.configuration

\* the elements of a finite set of integers, in ascending order
RECURSIVE Ascending(_)
Ascending(S) ==
    IF S = {} THEN <<>>
    ELSE LET m == CHOOSE x \in S : \A y \in S : x <= y
         IN  <<m>> \o Ascending(S \ {m})

\* the condition under which a block is said to be flagged
Flagged(i) == (i # 1 /\ file[i].idx = 0) \/ file[i].nbchan < 0

\* the blocks of the file that are not flagged, in file order
ValidBlocks == Ascending({i \in 1..Len(file) : ~Flagged(i)})

C2_ValidBlocksOnly ==
    sp # NoObj =>
        /\ Len(sp.block_start_unix) = Len(ValidBlocks)
        /\ \A k \in 1..Len(ValidBlocks) :
              sp.block_start_unix[k] = BlockStartUnix(file[ValidBlocks[k]])
        /\ Len(sp.data) = Len(ValidBlocks) * file[1].nffte
        /\ \A t \in 1..Len(sp.data) :
              LET b   == file[ValidBlocks[((t - 1) \div file[1].nffte) + 1]]
                  smp == ((t - 1) % file[1].nffte) + 1
              IN  /\ Len(sp.data[t]) = Abs(file[1].nbchan) * file[1].fftlen
                  /\ \A f \in 1..Len(sp.data[t]) :
                        LET sb == ((f - 1) \div file[1].fftlen) + 1
                            ch == ((f - 1) % file[1].fftlen) + 1
                        IN  sp.data[t][f] =
                                <<b.data[sb].fft0[smp][ch] * b.data[sb].fft0[smp][ch],
                                  b.data[sb].fft0[smp][ch] * b.data[sb].fft1[smp][ch],
                                  b.data[sb].fft1[smp][ch] * b.data[sb].fft1[smp][ch]>>

\* C2 happens: three blocks, the second with a negative nbchan, opened into
\* a cube of twice samples-per-block rows
C2_Witness ==
    /\ sp # NoObj
    /\ Len(file) = 3
    /\ file[2].nbchan < 0
    /\ ~Flagged(1) /\ ~Flagged(3)
    /\ Len(sp.block_start_unix) = 2
    /\ Len(sp.data) = 2 * sp.n_time_per_block

\* C3: assigning a beam that is not among the available beams raises at the
\* assignment, and no data is computed by it.
C3_UnknownBeamRaises ==
    (ret.op = "beam" /\ ret.arg.ty = "int" /\ ret.arg.v \notin Cfg.available_beams)
        => (ret.exc = "IndexError" /\ ~ret.computed /\ ret.val = NoObj)

\* C3 happens: beam 2 was assigned on a file that holds beams 0 and 1
C3_Witness ==
    /\ ret.op = "beam"
    /\ ret.arg = [ty |-> "int", v |-> 2]
    /\ Cfg.available_beams = {0, 1}
    /\ ret.exc = "IndexError"

\* C4: assigning a time_range with start >= stop or a frequency_range with
\* min >= max raises at the assignment.
C4_InvertedRangeRaises ==
    /\ (ret.op = "time_range" /\ ret.arg.ty = "Time" /\ Len(ret.arg.v) = 2
            /\ ret.arg.v[1] >= ret.arg.v[2])
        => ret.exc = "ValueError"
    /\ (ret.op = "frequency_range" /\ ret.arg.ty = "Quantity" /\ Len(ret.arg.v) = 2
            /\ ret.arg.v[1] >= ret.arg.v[2])
        => ret.exc = "ValueError"

\* C4 happens: a degenerate time_range (start = stop) was assigned and raised
C4_Witness ==
    /\ ret.op = "time_range"
    /\ ret.arg.ty = "Time" /\ Len(ret.arg.v) = 2
    /\ ret.arg.v[1] = ret.arg.v[2]
    /\ ret.exc = "ValueError"

\* C5: whatever assignments were made, and whether they returned or raised,
\* the beam is an available beam and both ranges are strictly ordered.
C5_ConfigurationValid ==
    sp # NoObj =>
        /\ Cfg.beam \in Cfg.available_beams
        /\ Len(Cfg.time_range) = 2
        /\ Cfg.time_range[1] < Cfg.time_range[2]
        /\ Len(Cfg.frequency_range) = 2
        /\ Cfg.frequency_range[1] < Cfg.frequency_range[2]

\* C5 happens: a second assignment raised after a first one had changed the
\* configuration
C5_Witness ==
    /\ sp # NoObj
    /\ calls = 2
    /\ ret.op = "frequency_range" /\ ret.exc = "ValueError"
    /\ Cfg.beam = 1

\* C6: rebin_dt and rebin_df are None or at least one native step, and an
\* assignment of anything smaller raises.
C6_RebinValidated ==
    sp # NoObj =>
        /\ Cfg.rebin_dt = None \/ Cfg.rebin_dt[1] >= sp.dt
        /\ Cfg.rebin_df = None \/ Cfg.rebin_df[1] >= sp.df
        /\ (ret.op = "rebin_dt" /\ ret.arg # None /\ ret.arg[1] < sp.dt)
              => ret.exc # "none"
        /\ (ret.op = "rebin_df" /\ ret.arg # None /\ ret.arg[1] < sp.df)
              => ret.exc # "none"

\* the time selection of the current configuration resolves to one index
Coincide == TimeSelection(sp).time_idx_min = TimeSelection(sp).time_idx_max

\* a result without samples
EmptyResult ==
    \/ ret.val = NoObj
    \/ (ret.val.data.rows = <<>> /\ ret.val.time = <<>>)

\* C7: a get() whose time selection resolves to coinciding indices warns
\* and returns an empty or absent result; it does not raise.
C7_EmptySelectionReturns ==
    (ret.op = "get" /\ Coincide)
        => (ret.exc = "none" /\ EmptyWarning \in ret.warn /\ EmptyResult)

\* the configured time_range lies wholly before or wholly after the data
OutsideSpan ==
    \/ Cfg.time_range[2] < Cfg.time_min
    \/ Cfg.time_range[1] > Cfg.time_max

\* C8: a time_range wholly outside the span of the file is accepted with a
\* warning, and a get() then warns of the empty selection and gives an
\* empty result without raising.
C8_OutsideSpanIsEmpty ==
    /\ (ret.op = "time_range" /\ ret.exc = "none" /\ OutsideSpan)
          => ret.warn # {}
    /\ (ret.op = "get" /\ OutsideSpan)
          => (ret.exc = "none" /\ EmptyWarning \in ret.warn /\ EmptyResult)

\* the stand-alone rebinning: what went in, what came out
RbIn == rb.in

RbOut == rb.out

RbN == Len(rb.in.data.rows)

RbNF == rb.in.data.nf

\* the whole native samples a requested bin covers: floor(rebin / step)
TBins == rb.in.rebin_dt[1] \div RebinSteps.dt

FBins == rb.in.rebin_df[1] \div RebinSteps.df

\* the stage of the other axis is idle or asks for 1 to all of its samples
TimeIdleOrFits == rb.in.rebin_dt = None \/ (1 <= TBins /\ TBins <= RbN)

FreqIdleOrFits == rb.in.rebin_df = None \/ (1 <= FBins /\ FBins <= RbNF)

\* the means of nb consecutive groups of equal size that together hold all
\* of axis but its last `dropped` entries
MeansOfPrefix(axis, nb, dropped) ==
    [i \in 1..nb |->
        NanMean(SubSeq(axis, (i - 1) * ((Len(axis) - dropped) \div nb) + 1,
                       i * ((Len(axis) - dropped) \div nb)))]

Column(rows, f) == [t \in 1..Len(rows) |-> rows[t][f]]

\* the whole native samples in a bin of the width asked for, when that width
\* is a whole number of native steps
WholeBins(rebin, step) == rebin[1] % step = 0 /\ rebin[1] >= step

\* C9: a rebinning that returns gives floor(n x native / target) bins along
\* the axis it averages, and where the target is a whole number k of native
\* samples the n - bins x k samples that fill no bin are dropped from the
\* trailing edge, each bin being the mean of k consecutive samples.
C9_BinsAsStated ==
    (rb.pc = "done" /\ RbOut.exc = "none") =>
        /\ (rb.in.rebin_dt # None /\ rb.in.rebin_dt[1] > 0) =>
              /\ Len(RbOut.times) = (RbN * RebinSteps.dt) \div rb.in.rebin_dt[1]
              /\ WholeBins(rb.in.rebin_dt, RebinSteps.dt) =>
                    /\ RbOut.tleftover = Some(RbN - (RbN \div TBins) * TBins)
                    /\ RbOut.times =
                          MeansOfPrefix(RbIn.times, RbN \div TBins,
                                        RbN - (RbN \div TBins) * TBins)
        /\ (rb.in.rebin_df # None /\ rb.in.rebin_df[1] > 0) =>
              /\ Len(RbOut.freqs) = (RbNF * RebinSteps.df) \div rb.in.rebin_df[1]
              /\ WholeBins(rb.in.rebin_df, RebinSteps.df) =>
                    /\ RbOut.fleftover = Some(RbNF - (RbNF \div FBins) * FBins)
                    /\ RbOut.freqs =
                          MeansOfPrefix(RbIn.freqs, RbNF \div FBins,
                                        RbNF - (RbNF \div FBins) * FBins)

\* C9, the case that departs from it: five samples rebinned to bins of three
\* native samples come back as one bin, the mean of all five, no sample
\* being dropped
C9_OverfullBin ==
    /\ rb.pc = "done"
    /\ RbN = 5
    /\ rb.in.rebin_dt = Some(3 * RebinSteps.dt)
    /\ rb.in.rebin_df = None
    /\ RbOut.exc = "none"
    /\ RbOut.tleftover = Some(0)
    /\ RbOut.times = <<NanMean(RbIn.times)>>

\* C9, what the code gives: with tbins = floor(target_dt / native_dt) and
\* 1 <= tbins <= n_samples the time rebinning gives floor(n_samples / tbins)
\* bins, and they are the means of consecutive groups of equal size of all
\* the samples but the last `leftover` ones; likewise in frequency.
C9_CodeBins ==
    rb.pc = "done" =>
        /\ (rb.in.rebin_dt # None /\ 1 <= TBins /\ TBins <= RbN /\ FreqIdleOrFits) =>
              /\ RbOut.exc = "none"
              /\ Len(RbOut.times) = RbN \div TBins
              /\ Len(RbOut.data.rows) = RbN \div TBins
              /\ RbOut.tleftover # None
              /\ RbOut.tleftover[1] \in 0..(RbN - 1)
              /\ (RbN - RbOut.tleftover[1]) % (RbN \div TBins) = 0
              /\ RbOut.times =
                    MeansOfPrefix(RbIn.times, RbN \div TBins, RbOut.tleftover[1])
              /\ rb.in.rebin_df = None =>
                    \A f \in 1..RbNF :
                        Column(RbOut.data.rows, f) =
                            MeansOfPrefix(Column(RbIn.data.rows, f), RbN \div TBins,
                                          RbOut.tleftover[1])
        /\ (rb.in.rebin_df # None /\ 1 <= FBins /\ FBins <= RbNF /\ TimeIdleOrFits) =>
              /\ RbOut.exc = "none"
              /\ Len(RbOut.freqs) = RbNF \div FBins
              /\ RbOut.data.nf = RbNF \div FBins
              /\ RbOut.fleftover # None
              /\ RbOut.fleftover[1] \in 0..(RbNF - 1)
              /\ (RbNF - RbOut.fleftover[1]) % (RbNF \div FBins) = 0
              /\ RbOut.freqs =
                    MeansOfPrefix(RbIn.freqs, RbNF \div FBins, RbOut.fleftover[1])
              /\ rb.in.rebin_dt = None =>
                    \A t \in 1..RbN :
                        RbOut.data.rows[t] =
                            MeansOfPrefix(RbIn.data.rows[t], RbNF \div FBins,
                                          RbOut.fleftover[1])

\* five samples rebinned to bins of 2.5 native steps, that is two whole
\* samples: two bins, the last sample left over
C9_TrailingDropped ==
    /\ rb.pc = "done"
    /\ RbN = 5
    /\ rb.in.rebin_dt = Some(5)
    /\ rb.in.rebin_df = None
    /\ RbOut.exc = "none"
    /\ Len(RbOut.times) = 2
    /\ RbOut.tleftover = Some(1)

\* C10: rebinning with a bin of exactly one native sample gives back the
\* axis and the data it was given, with as many samples and a leftover of
\* 0, whatever the length of the input.
C10_UnitBinIdentity ==
    rb.pc = "done" =>
        /\ (rb.in.rebin_dt = Some(RebinSteps.dt) /\ FreqIdleOrFits) =>
              /\ RbOut.exc = "none"
              /\ RbOut.times = RbIn.times
              /\ RbOut.tleftover = Some(0)
              /\ Len(RbOut.data.rows) = RbN
              /\ rb.in.rebin_df \in {None, Some(RebinSteps.df)} =>
                    RbOut.data = RbIn.data
        /\ (rb.in.rebin_df = Some(RebinSteps.df) /\ TimeIdleOrFits) =>
              /\ RbOut.exc = "none"
              /\ RbOut.freqs = RbIn.freqs
              /\ RbOut.fleftover = Some(0)
              /\ RbOut.data.nf = RbNF
              /\ rb.in.rebin_dt \in {None, Some(RebinSteps.dt)} =>
                    RbOut.data = RbIn.data

\* C10 happens: a single time sample, with NaN entries, rebinned in time
\* and in frequency with bins of one native sample
C10_Witness ==
    /\ rb.pc = "done"
    /\ RbN = 1
    /\ RbNF = 3
    /\ \E f \in 1..RbNF : RbIn.data.rows[1][f] = NaN
    /\ rb.in.rebin_dt = Some(RebinSteps.dt)
    /\ rb.in.rebin_df = Some(RebinSteps.df)
    /\ RbOut.exc = "none"
    /\ RbOut.data = RbIn.data

\* C11: when the bin asked for covers B native samples, 1 <= B <= N, the
\* rebinning of N samples into bins = floor(N / B) bins reports a leftover of
\* N - bins x (N div bins), drops that many trailing samples, and the
\* N - leftover samples it keeps fall evenly into the bins.
C11_LeftoverAccounting ==
    rb.pc = "done" =>
        /\ (rb.in.rebin_dt # None /\ 1 <= TBins /\ TBins <= RbN /\ FreqIdleOrFits) =>
              LET bins == RbN \div TBins
                  leftover == RbN - bins * (RbN \div bins)
              IN  /\ RbOut.exc = "none"
                  /\ RbOut.tleftover = Some(leftover)
                  /\ (RbN - leftover) % bins = 0
                  /\ Len(RbOut.times) * ((RbN - leftover) \div bins) = RbN - leftover
                  /\ RbOut.times = MeansOfPrefix(RbIn.times, bins, leftover)
        /\ (rb.in.rebin_df # None /\ 1 <= FBins /\ FBins <= RbNF /\ TimeIdleOrFits) =>
              LET bins == RbNF \div FBins
                  leftover == RbNF - bins * (RbNF \div bins)
              IN  /\ RbOut.exc = "none"
                  /\ RbOut.fleftover = Some(leftover)
                  /\ (RbNF - leftover) % bins = 0
                  /\ Len(RbOut.freqs) * ((RbNF - leftover) \div bins) = RbNF - leftover
                  /\ RbOut.freqs = MeansOfPrefix(RbIn.freqs, bins, leftover)

\* C11 happens: five samples and bins of two, so two bins and 5 - 2 x 2 = 1
\* sample left over, in time; three channels and bins of two, so one bin
\* and 3 - 1 x 3 = 0 channels left over, in frequency
C11_Witness ==
    /\ rb.pc = "done"
    /\ RbN = 5 /\ RbNF = 3
    /\ rb.in.rebin_dt = Some(2 * RebinSteps.dt)
    /\ rb.in.rebin_df = Some(2 * RebinSteps.df)
    /\ RbOut.exc = "none"
    /\ RbOut.tleftover = Some(1)
    /\ RbOut.fleftover = Some(0)
    /\ Len(RbOut.times) = 2
    /\ Len(RbOut.freqs) = 1

\* the edge channels the configuration asks to remove: lower and higher
EdgeLower == Cfg.edge_channels_to_remove.v[1]

EdgeHigher ==
    IF Cfg.edge_channels_to_remove.ty = "tuple"
    THEN Cfg.edge_channels_to_remove.v[2]
    ELSE Cfg.edge_channels_to_remove.v[1]

\* the channels (from 1) of subband s (from 0) that are NaN in row t of the
\* data the last get returned
NanChannels(t, s) ==
    { ch \in 1..sp.n_channels :
        ret.val.data.rows[t][s * sp.n_channels + ch] = NaN }

\* a get that returned data which were not rebinned
GotUnbinned ==
    /\ ret.op = "get"
    /\ ret.exc = "none"
    /\ Cfg.rebin_dt = None
    /\ Cfg.rebin_df = None
    /\ Len(ret.val.data.rows) > 0

\* C12: whatever edge_channels_to_remove the setter accepted, every subband
\* of the data that get returns has its `lower` lowest and its `higher`
\* highest channels NaN and no other, lower + higher channels in all: 2k for
\* a scalar k, k for a pair (k, 0) or (0, k).
C12_EdgeChannelCount ==
    GotUnbinned =>
        \A t \in 1..Len(ret.val.data.rows) :
            \A s \in 0..((ret.val.data.nf \div sp.n_channels) - 1) :
                /\ NanChannels(t, s) =
                      (1..EdgeLower)
                          \cup ((sp.n_channels - EdgeHigher + 1)..sp.n_channels)
                /\ Cardinality(NanChannels(t, s)) = EdgeLower + EdgeHigher

\* C12, a case that departs from it: the scalar -1 was accepted and the get
\* that followed returned subbands of two channels with the lower one NaN
C12_NegativeEdge ==
    /\ GotUnbinned
    /\ Cfg.edge_channels_to_remove = IntArg(-1)
    /\ sp.n_channels = 2
    /\ \A s \in 0..((ret.val.data.nf \div sp.n_channels) - 1) :
          NanChannels(1, s) = {1}

\* the data of the stand-alone call averaged in time only: nb bins, the last
\* `dropped` rows left out
TimeAveraged(nb, dropped) ==
    [i \in 1..nb |->
        [f \in 1..RbNF |-> MeansOfPrefix(Column(RbIn.data.rows, f), nb, dropped)[i]]]

\* C13: a rebinning may be asked for in time, in frequency, in both or in
\* neither.  With neither the data and both axes come back as given; with
\* one, the other axis comes back as given; with both, the data are averaged
\* in time first and the result is then averaged in frequency.
C13_TimeThenFrequency ==
    (rb.pc = "done" /\ TimeIdleOrFits /\ FreqIdleOrFits) =>
        /\ RbOut.exc = "none"
        /\ rb.in.rebin_dt = None =>
              /\ RbOut.times = RbIn.times
              /\ Len(RbOut.data.rows) = RbN
              /\ RbOut.tleftover = None
        /\ rb.in.rebin_df = None =>
              /\ RbOut.freqs = RbIn.freqs
              /\ RbOut.data.nf = RbNF
              /\ RbOut.fleftover = None
        /\ (rb.in.rebin_dt = None /\ rb.in.rebin_df = None) =>
              RbOut.data = RbIn.data
        /\ rb.in.rebin_dt # None =>
              /\ Len(RbOut.times) = RbN \div TBins
              /\ Len(RbOut.data.rows) = RbN \div TBins
        /\ rb.in.rebin_df # None =>
              /\ Len(RbOut.freqs) = RbNF \div FBins
              /\ RbOut.data.nf = RbNF \div FBins
        /\ (rb.in.rebin_dt # None /\ rb.in.rebin_df # None) =>
              \A i \in 1..(RbN \div TBins) :
                  RbOut.data.rows[i] =
                      MeansOfPrefix(
                          TimeAveraged(RbN \div TBins, RbOut.tleftover[1])[i],
                          RbNF \div FBins, RbOut.fleftover[1])

\* C13 happens: two samples of three channels with NaN entries, averaged by
\* two in time and by three in frequency; the mean 17/2 is the one of the
\* time means 4, 10 and 23/2, while the mean of the frequency means 7 and
\* 23/2 would be 37/4
C13_Witness ==
    /\ rb.pc = "done"
    /\ RbN = 2 /\ RbNF = 3
    /\ \E f \in 1..RbNF : RbIn.data.rows[1][f] = NaN
    /\ rb.in.rebin_dt = Some(2 * RebinSteps.dt)
    /\ rb.in.rebin_df = Some(3 * RebinSteps.df)
    /\ RbOut.exc = "none"
    /\ RbOut.data.rows = << << <<17, 2>> >> >>

\* the file-level parameters of an instance
FileParameters(o) ==
    [ n_channels |-> o.n_channels,
      n_subbands |-> o.n_subbands,
      n_time_per_block |-> o.n_time_per_block,
      dt |-> o.dt,
      df |-> o.df ]

\* C14: the channel count, the subband count, the samples per block and the
\* time and frequency steps of an instance are those of the header of the
\* first block (FFT length, absolute value of the subband count, nffte), and
\* a second open of the same file gives the same ones, whatever blocks are
\* flagged.
C14_HeaderParameters ==
    /\ sp # NoObj =>
          FileParameters(sp) =
              [ n_channels |-> file[1].fftlen,
                n_subbands |-> Abs(file[1].nbchan),
                n_time_per_block |-> file[1].nffte,
                dt |-> file[1].fftlen * file[1].nfft2int * SamplePeriod,
                df |-> SubbandWidthF \div file[1].fftlen ]
    /\ ret.op = "reopen" =>
          /\ (ret.val = NoObj) = (sp = NoObj)
          /\ sp # NoObj => FileParameters(ret.val) = FileParameters(sp)

\* C14 happens: a file whose first block has a negative subband count and
\* whose second block has idx 0 was opened twice
C14_Witness ==
    /\ ret.op = "reopen"
    /\ sp # NoObj
    /\ ret.val # NoObj
    /\ Len(file) = 3
    /\ file[1].nbchan = -3
    /\ file[2].idx = 0
    /\ sp.n_subbands = 3
    /\ FileParameters(ret.val) = FileParameters(sp)

\* C15: opening a file that holds fewer bytes than one block header raises,
\* and no instance results, at the first open and at any later one.
C15_ShortFileRaises ==
    (file = ShortFile /\ ret.op \in {"open", "reopen"}) =>
        /\ ret.exc # "none"
        /\ sp = NoObj
        /\ ret.op = "reopen" => ret.val = NoObj

\* C15 happens: the open of a file too short for a header raised ValueError
C15_Witness ==
    /\ file = ShortFile
    /\ ret.op = "open"
    /\ ret.exc = "ValueError"
    /\ sp = NoObj

\* every block of the file is flagged
AllFlagged == Len(file) >= 1 /\ \A i \in 1..Len(file) : Flagged(i)

\* C16: flagged blocks never make the open fail: a file whose blocks are
\* all flagged opens into an instance with no sample and no block start
\* time.
C16_AllInvalidOpens ==
    (ret.op = "open" /\ AllFlagged) =>
        /\ ret.exc = "none"
        /\ sp # NoObj
        /\ sp.data = <<>>
        /\ sp.block_start_unix = <<>>

\* C16, the case that departs from it: two blocks with a negative subband
\* count, and the open raised IndexError
C16_AllInvalidRaises ==
    /\ ret.op = "open"
    /\ Len(file) = 2
    /\ AllFlagged
    /\ ret.exc = "IndexError"
    /\ sp = NoObj

\* C17: once the instance has been closed or discarded, no memory map of
\* the file remains held, whether the calls made before returned or raised.
C17_MappingReleased ==
    ret.op \in {"close", "discard"} => mmaps = 0

\* C17, the case that departs from it: close() raised AttributeError and
\* the instance still holds its memory map
C17_CloseKeepsMapping ==
    /\ ret.op = "close"
    /\ ret.exc = "AttributeError"
    /\ sp # NoObj
    /\ mmaps = 1

\* C18: a Constraints object never holds two constraints of one class.
\* Constraints(...) given two constraints of one class raises ValueError,
\* and so does c + x when c holds a constraint of the class of x, unless x is
\* an ElevationCnst and the one c holds is the default one.
C18_OneConstraintPerClass ==
    /\ \A k \in 1..Len(cts) : ~HasDuplicateClass(cts[k].constraints)
    /\ (ret.op = "Constraints" /\ HasDuplicateClass(ret.arg)) =>
          ret.exc = "ValueError"
    /\ (ret.op = "add" /\ ret.arg.other.cls # "str"
            /\ HasClass(ret.arg.before.constraints, ret.arg.other.cls)
            /\ ~(ret.arg.other.cls = "ElevationCnst" /\ ret.arg.before.default_el)) =>
          ret.exc = "ValueError"

\* C18 happens: a second ElevationCnst was added to an object that holds one
\* of its own, not the default one, and the addition raised ValueError
C18_Witness ==
    /\ ret.op = "add"
    /\ ret.arg.other.cls = "ElevationCnst"
    /\ ~ret.arg.before.default_el
    /\ HasClass(ret.arg.before.constraints, "ElevationCnst")
    /\ ret.exc = "ValueError"

\* C19: once ElevationCnst(elevationMin=e) has been evaluated on a target,
\* its score is 0 at every time slot during which the elevation of the
\* target, at both edges of the slot, is lower than e.
C19_ScoreZeroBelowMin ==
    (ret.op = "evaluate" /\ ret.exc = "none") =>
        \A i \in 1..Len(ret.val) :
            (/\ ret.arg.elevation[i] < ret.arg.elevationMin
             /\ ret.arg.elevation[i + 1] < ret.arg.elevationMin)
                => ret.val[i] = <<0, 1>>

\* C19, the case that departs from it: elevationMin is 20 degrees, the
\* target stays at 10 degrees during the first slot and rises to 50 degrees
\* during the second; the score of the first slot is NaN, that of the
\* second is 1
C19_ScoreNaNBelowMin ==
    /\ ret.op = "evaluate"
    /\ ret.arg = [elevationMin |-> 20, elevation |-> <<10, 10, 50>>]
    /\ ret.exc = "none"
    /\ ret.val = <<NaN, <<1, 1>>>>

\* C20: a block whose TIMESTAMP is 0 is flagged by the mask computed while
\* opening, like a block with idx 0 or a negative nbchan, and the instance
\* keeps neither its start time nor its samples.
C20_TimestampZeroFlagged ==
    ret.op = "open" =>
        /\ \A i \in 1..Len(file) :
              file[i].TIMESTAMP = 0 => ret.val.bad_block_mask[i]
        /\ sp # NoObj =>
              /\ Len(sp.block_start_unix) =
                    Cardinality({ i \in 1..Len(file) :
                                    ~Flagged(i) /\ file[i].TIMESTAMP # 0 })
              /\ Len(sp.data) = Len(sp.block_start_unix) * sp.n_time_per_block

\* C20, the case that departs from it: the second block has TIMESTAMP 0, a
\* non-zero idx and a positive nbchan; it is not flagged, and its start
\* time, less than one second after the epoch, is the second of the instance
C20_TimestampZeroKept ==
    /\ ret.op = "open"
    /\ sp # NoObj
    /\ Len(file) >= 2
    /\ file[2].TIMESTAMP = 0 /\ file[2].idx # 0 /\ file[2].nbchan > 0
    /\ ~ret.val.bad_block_mask[2]
    /\ ~Flagged(1)
    /\ sp.block_start_unix[2] = file[2].BLOCKSEQNUMBER * SamplePeriod
    /\ sp.block_start_unix[2] < TicksPerSecond
    /\ Len(sp.data) = Len(file) * sp.n_time_per_block


----------------------------------------------------------------------------
(* The order of the stages of get                                          *)

\* an edge_channels_to_remove that asks for some channel: a count that is
\* not zero
NonzeroEdge(edge_chans) == \E i \in 1..Len(edge_chans.v) : edge_chans.v[i] # 0

\* the selected data after the stages named, in the order named: the
\* bandpass correction when it is asked for, the edge channels when some are
\* asked for, the polarization, the rebinning
StagesInOrder(o, sel) ==
    LET corrected == IF o.configuration.correct_bandpass
                     THEN CorrectBandpass(sel.data, o.n_channels)
                     ELSE sel.data
        masked == IF NonzeroEdge(o.configuration.edge_channels_to_remove)
                  THEN RemoveEdgeChannels(
                           corrected, o.n_channels,
                           o.configuration.edge_channels_to_remove.v[1],
                           IF o.configuration.edge_channels_to_remove.ty = "tuple"
                           THEN o.configuration.edge_channels_to_remove.v[2]
                           ELSE o.configuration.edge_channels_to_remove.v[1])
                  ELSE corrected
    IN  TimeFrequencyRebin(ComputeStokesI(masked), sel.time_unix,
                           sel.frequency_hz, o.configuration.rebin_dt,
                           o.configuration.rebin_df, o.dt, o.df)

\* what a get that ran every stage on the selection sel and then computed
\* the data once hands back
ComputedOnce(r) ==
    /\ r.exc = "none"
    /\ ret.exc = "none"
    /\ ret.val = [data |-> r.data, time |-> r.times, freq |-> r.freqs]

\* C21: a get that computed its data returns the selection passed through
\* the bandpass correction (when correct_bandpass is true), the edge-channel
\* masking (when a nonzero count is configured), the polarization reduction
\* and the rebinning, in that order whatever the configuration, and nothing
\* touches the data once computed; a get that did not reach the computation
\* returns no data.
C21_StagesInOrder ==
    ret.op = "get" =>
        IF ret.computed
        THEN ComputedOnce(StagesInOrder(sp, SelectData(sp)))
        ELSE ret.exc # "none" /\ ret.val = NoObj

\* C21, a case where the order shows: the bandpass is corrected, the lower
\* channel of each subband of two channels is masked, and the two channels
\* are averaged into one, which is the corrected upper channel alone
C21_Witness ==
    /\ ret.op = "get"
    /\ ret.computed
    /\ Cfg.correct_bandpass
    /\ Cfg.edge_channels_to_remove = [ty |-> "tuple", ints |-> TRUE, v |-> <<1, 0>>]
    /\ Cfg.rebin_df = Some(SubbandWidthF)
    /\ sp.n_channels = 2
    /\ Len(ret.val.data.rows) > 0
    /\ ret.val.data.nf > 0
    /\ \A f \in 1..ret.val.data.nf : ret.val.data.rows[1][f] # NaN


----------------------------------------------------------------------------
(* The frequency selection                                                 *)

\* the frequency indices (from 0) of the cube that the selection fs of the
\* instance o takes
SelectedFrequencyIdx(o, fs) ==
    { fs.beam_idx_start + j :
        j \in { k \in fs.frequency_idx_min..(fs.frequency_idx_max - 1) :
                    fs.beam_idx_start + k < Len(o.data[1]) } }

\* the selection sel holds, in every row, the entries of the cube at the
\* frequency indices first..last (from 0), and the frequency of each
FrequenciesTaken(o, sel, first, last) ==
    /\ sel.data.nf = last - first + 1
    /\ Len(sel.frequency_hz) = sel.data.nf
    /\ \A j \in 1..sel.data.nf :
          /\ sel.frequency_hz[j] =
                <<o.subband_start_hz[((first + j - 1) \div o.n_channels) + 1]
                      + ((first + j - 1) % o.n_channels) * o.df, 1>>
          /\ \A t \in 1..Len(sel.data.rows) :
                \E c \in 1..Len(o.data) :
                    sel.data.rows[t][j] = o.data[c][first + j]

\* the frequency selection fs of the instance o stays inside the configured
\* beam and takes whole subbands, one at least
InsideBeam(o, fs, sel) ==
    /\ fs.frequency_idx_min < fs.frequency_idx_max
    /\ \A i \in SelectedFrequencyIdx(o, fs) :
          fs.beam_idx_start <= i /\ i <= fs.beam_idx_stop
    /\ sel.data.nf > 0
    /\ sel.data.nf % o.n_channels = 0
    /\ FrequenciesTaken(o, sel, fs.beam_idx_start + fs.frequency_idx_min,
                        fs.beam_idx_start + fs.frequency_idx_max - 1)

\* the subband starts of the configured beam ascend
SubbandsAscend(fs) ==
    \A a \in 1..Len(fs.subbands_in_beam) : \A b \in 1..Len(fs.subbands_in_beam) :
        a < b => fs.subbands_in_beam[a] < fs.subbands_in_beam[b]

\* C22: whatever frequency_range and beam the setters accepted, a selection
\* that is not empty in time takes frequency indices of the cube that all lie
\* in the inclusive (start, stop) range of the configured beam, a positive
\* multiple of n_channels of them, and returns a frequency axis of that
\* length.
C22_FrequencyInsideBeam ==
    (sp # NoObj /\ ~SelectData(sp).none) =>
        InsideBeam(sp, FrequencySelection(sp), SelectData(sp))

\* C22, a case that departs from it: the file records subband 21 before
\* subband 20 in beam 0, the range from the start of subband 20 to the start
\* of subband 22 was accepted, and the selection holds rows without any
\* channel and an empty frequency axis
C22_NoChannelSelected ==
    /\ ret.op = "frequency_range"
    /\ ret.exc = "none"
    /\ Cfg.beam = 0
    /\ Cfg.frequency_range = <<F(0), F(8)>>
    /\ FrequencySelection(sp).subbands_in_beam = <<21 * SubbandWidthF, 20 * SubbandWidthF>>
    /\ FrequencySelection(sp).sb_idx_min = 1
    /\ FrequencySelection(sp).sb_idx_max = 0
    /\ ~SelectData(sp).none
    /\ Len(SelectData(sp).data.rows) > 0
    /\ SelectData(sp).data.nf = 0
    /\ SelectData(sp).frequency_hz = <<>>

\* C22, where it holds: the subband starts of the configured beam ascend
C22_AscendingInsideBeam ==
    (sp # NoObj /\ ~SelectData(sp).none /\ SubbandsAscend(FrequencySelection(sp))) =>
        InsideBeam(sp, FrequencySelection(sp), SelectData(sp))

\* C22, a case where it holds: beam 0 holds subbands 20 and 21 in that
\* order and a range set inside its upper one selected that subband alone
C22_UpperSubbandAlone ==
    /\ ret.op = "get"
    /\ ret.computed
    /\ Cfg.beam = 0
    /\ Cfg.frequency_range = <<F(5), F(11)>>
    /\ SubbandsAscend(FrequencySelection(sp))
    /\ FrequencySelection(sp).sb_idx_min = 1
    /\ ret.val.data.nf = sp.n_channels
    /\ InsideBeam(sp, FrequencySelection(sp), SelectData(sp))

----------------------------------------------------------------------------
(* The size of the bins                                                    *)

\* the means of the consecutive groups of k entries of axis, one per entry
\* of out
MeansOfGroups(out, axis, k) ==
    /\ Len(out) * k <= Len(axis)
    /\ \A i \in 1..Len(out) :
          out[i] = NanMean(SubSeq(axis, (i - 1) * k + 1, i * k))

\* C23: a time rebinning with tbins = floor(rebin_dt / dt) and
\* 1 <= tbins <= N samples gives bins that are each the mean of exactly tbins
\* consecutive native samples, of the time axis and of every frequency
\* column; likewise a frequency rebinning with fbins = floor(rebin_df / df)
\* and 1 <= fbins <= the number of channels.
C23_BinsOfAnnouncedSize ==
    (rb.pc = "done" /\ RbOut.exc = "none") =>
        /\ (rb.in.rebin_dt # None /\ rb.in.rebin_df = None
                /\ 1 <= TBins /\ TBins <= RbN) =>
              /\ MeansOfGroups(RbOut.times, RbIn.times, TBins)
              /\ \A f \in 1..RbNF :
                    MeansOfGroups(Column(RbOut.data.rows, f),
                                  Column(RbIn.data.rows, f), TBins)
        /\ (rb.in.rebin_df # None /\ rb.in.rebin_dt = None
                /\ 1 <= FBins /\ FBins <= RbNF) =>
              /\ MeansOfGroups(RbOut.freqs, RbIn.freqs, FBins)
              /\ \A t \in 1..RbN :
                    MeansOfGroups(RbOut.data.rows[t], RbIn.data.rows[t], FBins)

\* C23, a case that departs from it: 3 channels averaged by fbins = 2 give
\* one bin, the mean of all 3 channels
C23_ThreeChannelsInBinOfTwo ==
    /\ rb.pc = "done"
    /\ RbNF = 3
    /\ rb.in.rebin_dt = None
    /\ rb.in.rebin_df = Some(2 * RebinSteps.df)
    /\ RbOut.exc = "none"
    /\ RbOut.freqs = <<NanMean(RbIn.freqs)>>
    /\ RbOut.freqs # <<NanMean(SubSeq(RbIn.freqs, 1, 2))>>

\* C23, where it holds: when tbins divides the number of samples every bin
\* is the mean of tbins consecutive samples
C23_DividingBins ==
    (rb.pc = "done" /\ RbOut.exc = "none" /\ rb.in.rebin_dt # None
        /\ rb.in.rebin_df = None /\ 1 <= TBins /\ TBins <= RbN
        /\ RbN % TBins = 0) =>
            MeansOfGroups(RbOut.times, RbIn.times, TBins)


----------------------------------------------------------------------------
(* The time axis of a selection                                            *)

\* the time of sample i (from 0) of the cube of the instance o
SampleTime(o, i) ==
    <<o.block_start_unix[(i \div o.n_time_per_block) + 1]
          + (i % o.n_time_per_block) * o.dt, 1>>

\* the time axis of the selection sel has one entry per row of its data,
\* the time of the cube sample the row holds
TimeAxisMatches(o, ts, sel) ==
    /\ Len(sel.time_unix) = Len(sel.data.rows)
    /\ \A t \in 1..Len(sel.time_unix) :
          sel.time_unix[t] = SampleTime(o, ts.time_idx_min + t - 1)

\* the configuration is the one the open set up
DefaultConfigured == Cfg = DefaultConfiguration(sp).cfg

\* C24: a selection that is not empty returns a time axis with exactly as
\* many entries as its data have rows, each the time of the cube sample of
\* that row; so it is under the default configuration the open sets up.
C24_TimeAxisMatchesData ==
    (sp # NoObj /\ ~SelectData(sp).none) =>
        TimeAxisMatches(sp, TimeSelection(sp), SelectData(sp))

\* C24, a case that departs from it: right after the open, under the default
\* configuration, get returns every sample of the cube with a time axis of
\* fewer entries
C24_DefaultAxisShort ==
    /\ ret.op = "get"
    /\ ret.computed
    /\ DefaultConfigured
    /\ Len(ret.val.data.rows) = Len(sp.data)
    /\ Len(ret.val.time) < Len(ret.val.data.rows)

\* C24, the same on a file whose blocks last longer than a second: the
\* default selection holds every sample of the cube and a time axis of one
\* entry
C24_DefaultAxisOfOneEntry ==
    /\ ret.op = "open"
    /\ sp # NoObj
    /\ sp.n_time_per_block * sp.dt > TicksPerSecond
    /\ Len(sp.data) > sp.n_time_per_block
    /\ ~SelectData(sp).none
    /\ Len(SelectData(sp).data.rows) = Len(sp.data)
    /\ Len(SelectData(sp).time_unix) = 1


----------------------------------------------------------------------------
(* The sample indices of the time selection                                *)

\* the indices ts resolved for the two bounds lie inside their blocks and
\* inside the cube of the instance o
IndicesInRange(o, ts) ==
    /\ ts.time_idx_min_in_block \in 0..(o.n_time_per_block - 1)
    /\ ts.time_idx_max_in_block \in 0..(o.n_time_per_block - 1)
    /\ 0 <= ts.time_idx_min
    /\ ts.time_idx_min <= ts.time_idx_max
    /\ ts.time_idx_max < Len(o.data)

\* C25: for every time_range the setter accepted (start < stop) and every
\* file, with or without blocks left out, the sample index resolved inside
\* the bounding block of each bound lies in 0..n_time_per_block - 1 and the
\* global indices satisfy 0 <= time_idx_min <= time_idx_max < the number of
\* samples of the cube.
C25_TimeIndicesInRange ==
    (sp # NoObj /\ Cfg.time_range[1] < Cfg.time_range[2]) =>
        IndicesInRange(sp, TimeSelection(sp))

\* C25, a case that departs from it: a range that ends before the file
\* starts was accepted with a warning and resolves to negative indices
C25_NegativeIndices ==
    /\ ret.op = "time_range"
    /\ ret.exc = "none"
    /\ Cfg.time_range[2] < sp.block_start_unix[1]
    /\ TimeSelection(sp).time_idx_min_in_block < 0
    /\ TimeSelection(sp).time_idx_max < 0

\* C25, a case that departs from it: under the default configuration of a
\* file whose blocks last longer than a second the upper bound resolves to
\* sample n_time_per_block of the last block, one past the end of the cube
C25_DefaultPastTheEnd ==
    /\ ret.op = "open"
    /\ sp # NoObj
    /\ sp.n_time_per_block * sp.dt > TicksPerSecond
    /\ Len(sp.block_start_unix) > 1
    /\ TimeSelection(sp).block_idx_max = Len(sp.block_start_unix) - 1
    /\ TimeSelection(sp).time_idx_max_in_block = sp.n_time_per_block
    /\ TimeSelection(sp).time_idx_max = Len(sp.data)


----------------------------------------------------------------------------
(* The default configuration                                               *)

\* C26: the open of a file with at least one valid block succeeds and
\* leaves an instance with its default configuration, whatever beams and
\* subbands the file holds and in whatever order.
C26_DefaultConfigurationBuilt ==
    (ret.op = "open" /\ file # ShortFile /\ ValidBlocks # <<>>) =>
        /\ ret.exc = "none"
        /\ sp # NoObj
        /\ Cfg = DefaultConfiguration(sp).cfg

\* C26, a case that departs from it: every block is valid, the beamlets
\* carry beams 1 and 2, and the open raised IndexError
C26_NoBeamZeroRaises ==
    /\ ret.op = "open"
    /\ Len(file) >= 1
    /\ Len(ValidBlocks) = Len(file)
    /\ \A sb \in 1..Len(file[1].data) : file[1].data[sb].beam # 0
    /\ ret.exc = "IndexError"
    /\ sp = NoObj

\* C26, a case that departs from it: every block is valid, the last subband
\* starts a subband width or more below the first, and the open raised
\* ValueError
C26_DescendingSubbandsRaise ==
    /\ ret.op = "open"
    /\ Len(file) >= 1
    /\ Len(ValidBlocks) = Len(file)
    /\ file[1].data[Len(file[1].data)].channel < file[1].data[1].channel
    /\ ret.exc = "ValueError"
    /\ sp = NoObj

\* C26, where it holds: beam 0 is among the beams of block 0, the last
\* subband of block 0 does not start below the first and no block carries a
\* TIMESTAMP of 0
C26_BeamZeroAscending ==
    (ret.op = "open" /\ file # ShortFile /\ ValidBlocks # <<>>
        /\ (\A i \in 1..Len(file) : file[i].TIMESTAMP # 0)
        /\ (\E sb \in 1..Len(file[1].data) : file[1].data[sb].beam = 0)
        /\ file[1].data[Len(file[1].data)].channel >= file[1].data[1].channel) =>
            /\ ret.exc = "none"
            /\ sp # NoObj


----------------------------------------------------------------------------
(* The block the beams and the subbands are read from                      *)

\* the subband start frequencies and the beam index that block i of the
\* file records
SubbandStartsOf(i) ==
    [sb \in 1..Len(file[i].data) |-> file[i].data[sb].channel * SubbandWidthF]

BeamIndexOf(i) ==
    SortBeamEdges([sb \in 1..Len(file[i].data) |-> file[i].data[sb].beam],
                  file[1].fftlen)

\* the instance holds the subband starts and the beam index of block i
BuiltFrom(i) ==
    /\ sp.subband_start_hz = SubbandStartsOf(i)
    /\ sp.beam_indices_dict = BeamIndexOf(i)

\* C27: the beam index and the subband start frequencies of an opened
\* instance are those of a block that passed the validity filter; a flagged
\* block, block 0 with a negative subband count for one, gives them nothing.
C27_BuiltFromValidBlock ==
    (ret.op = "open" /\ sp # NoObj) =>
        \E k \in 1..Len(ValidBlocks) : BuiltFrom(ValidBlocks[k])

\* C27, a case that departs from it: block 0 is flagged for its negative
\* subband count, a later block is valid, and the instance holds the beams
\* and subbands of block 0, which no valid block records
C27_FlaggedFirstBlockUsed ==
    /\ ret.op = "open"
    /\ sp # NoObj
    /\ Flagged(1)
    /\ file[1].nbchan < 0
    /\ ValidBlocks # <<>>
    /\ BuiltFrom(1)
    /\ \A k \in 1..Len(ValidBlocks) : ~BuiltFrom(ValidBlocks[k])

\* C27, where it holds: block 0 passed the validity filter
C27_ValidFirstBlock ==
    (ret.op = "open" /\ sp # NoObj /\ ~Flagged(1)) => BuiltFrom(1)


----------------------------------------------------------------------------
(* A setter that raises                                                    *)

\* the configuration fields that are set through a setter
CheckedFields == {"beam", "time_range", "frequency_range", "edge_channels_to_remove"}

----------------------------------------------------------------------------
(* What get leaves behind                                                  *)

\* the result the last call returned has NaN entries
ResultHasNaN ==
    \E t \in 1..Len(ret.val.data.rows) :
        \E f \in 1..ret.val.data.nf : ret.val.data.rows[t][f] = NaN

\* the cube of the instance has no NaN entry
CubeHasNoNaN ==
    \A t \in 1..Len(sp.data) : \A f \in 1..Len(sp.data[t]) : sp.data[t][f] # NaN

----------------------------------------------------------------------------
(* The left operand of an addition                                         *)

\* C30: c2 = c + x leaves c with the constraints and the _default_el flag it
\* had before the call, its default ElevationCnst included, whatever
\* constraint x is, an ElevationCnst too.
C30_AddLeavesLeftOperand ==
    ret.op = "add" =>
        /\ cts[ret.arg.self].constraints = ret.arg.before.constraints
        /\ cts[ret.arg.self].default_el = ret.arg.before.default_el

\* C30, a case that departs from it: c held only its default ElevationCnst,
\* an ElevationCnst was added, and c is left with no constraint and its flag
\* cleared
C30_DefaultElevationRemoved ==
    /\ ret.op = "add"
    /\ ret.exc = "none"
    /\ ret.arg.other.cls = "ElevationCnst"
    /\ ret.arg.before = [constraints |-> <<DefaultElevationCnst>>, default_el |-> TRUE]
    /\ cts[ret.arg.self] = [constraints |-> <<>>, default_el |-> FALSE]
    /\ cts[Len(cts)].constraints = <<ret.arg.other>>

\* C30, where it holds: the constraint added is no ElevationCnst, or the
\* left operand holds no default ElevationCnst
C30_OtherAdditionsLeaveOperand ==
    (ret.op = "add"
        /\ ~(ret.arg.other.cls = "ElevationCnst" /\ ret.arg.before.default_el)) =>
            cts[ret.arg.self] = ret.arg.before

============================================================================
